---- MODULE Spec2Model ----
(***************************************************************************)
(* COMETS Python toolbox (src/comets.py): the model-file codec             *)
(* (model.write_comets_model / model.read_comets_model) and the layout-file *)
(* codec (layout.write_layout / layout.read_comets_layout), with the        *)
(* mutation calls that build a Model and a Layout.                          *)
(*                                                                          *)
(* A file is a sequence of lines, a line a sequence of whitespace-separated *)
(* tokens (blank lines are dropped on read, indentation is ignored by       *)
(* split()).  A token is a word or a number.  Python's str() of a number    *)
(* followed by float()/int() gives back a numerically equal number, so a    *)
(* number token carries its value.  Bounds (LB, UB, default_bounds) are     *)
(* held in tenths: pandas relabels a repeated header field X as "X.1", and  *)
(* float("X.1") is X plus one tenth.                                        *)
(***************************************************************************)
EXTENDS Integers, Sequences, FiniteSets, TLC

VARIABLES m, mfile, mres, mpc, mops,
          lyt, lfile, lres, lpc, lops

mvars == <<m, mfile, mres, mpc, mops>>
lvars == <<lyt, lfile, lres, lpc, lops>>
vars == <<m, mfile, mres, mpc, mops, lyt, lfile, lres, lpc, lops>>

\* ---------------------------------------------------------------- bounds
MaxOps == 2
MaxLayoutOps == 2

\* ---------------------------------------------------------------- values
\* float('NaN') / np.NaN: the null of the V_MAX, KM and HILL columns.
NaN == -999
\* Python's None (objective of an empty model, an attribute never assigned).
None == -998

W(s) == [k |-> "w", s |-> s, n |-> 0]
N(i) == [k |-> "n", s |-> "", n |-> i]
Term == <<W("//")>>

\* ---------------------------------------------------------------- helpers
RECURSIVE Flatten(_)
Flatten(ss) == IF ss = <<>> THEN <<>> ELSE Head(ss) \o Flatten(Tail(ss))

Map(s, Op(_)) == [i \in 1..Len(s) |-> Op(s[i])]

Range(s) == {s[i] : i \in 1..Len(s)}

\* list.index(x)+1 : position of the first occurrence
IndexOf(s, x) == CHOOSE i \in 1..Len(s) : s[i] = x /\ \A j \in 1..(i-1) : s[j] # x

Min(S) == CHOOSE x \in S : \A y \in S : x <= y

\* ---------------------------------------------------------------- Model
\* model.__init__: the fields of a Model before anything is loaded.
EmptyModel ==
  [id |-> "none", reactions |-> <<>>, smat |-> <<>>, metabolites |-> <<>>,
   signals |-> <<>>, light |-> <<>>,
   vmax_flag |-> FALSE, km_flag |-> FALSE, hill_flag |-> FALSE,
   convection_flag |-> FALSE, light_flag |-> FALSE,
   nonlinear_diffusion_flag |-> FALSE, neutral_drift_flag |-> FALSE,
   noise_variance_flag |-> FALSE,
   default_vmax |-> 10, default_km |-> 1, default_hill |-> 1,
   default_bounds |-> <<0, 10000>>,
   objective |-> None, optimizer |-> "GUROBI",
   obj_style |-> "MAXIMIZE_OBJECTIVE_FLUX",
   neutralDriftSigma |-> None, convection_parameters |-> <<>>,
   nonlinear_diffusion_parameters |-> <<>>, noise_variance |-> None]

\* The networks a cobra model is loaded from: metabolite names, reaction
\* names, the IDs of the exchange reactions, the stoichiometry triples
\* (metabolite, rxn, s_coef) sorted by (metabolite, rxn), the objective ID.
NetA == [id |-> "a", mets |-> <<"m1", "m2", "m3">>, rxns |-> <<"r1", "r2">>,
         exch |-> <<1>>,
         smat |-> << <<1, 1, -1>>, <<2, 1, 1>>, <<3, 2, -1>> >>, obj |-> 2]
NetB == [id |-> "b", mets |-> <<"glc_e", "o2_e", "x_c">>,
         rxns |-> <<"EX_glc", "bio", "EX_o2">>, exch |-> <<1, 3>>,
         smat |-> << <<1, 1, -1>>, <<1, 2, -1>>, <<2, 2, -1>>, <<2, 3, -1>>,
                     <<3, 2, 1>> >>, obj |-> 2]
Nets == {NetA, NetB}

DefaultPairs == {<<0, 10000>>, <<-10000, 10000>>, <<0, 0>>}
Solvers == {<<"GUROBI", "MAXIMIZE_OBJECTIVE_FLUX">>,
            <<"GLPK", "MAX_OBJECTIVE_MIN_TOTAL">>}

\* exch.index(x)+1 if x in exch else 0   (lines 310-313 and 463-465)
ExchInd(exch, x) == IF x \in Range(exch) THEN IndexOf(exch, x) ELSE 0

\* model.load_cobra_model: the Model built from a network whose reactions
\* carry the bounds pair b and no Vmax/Km/Hill attribute.
load_cobra_model(net, b, solver) ==
  [EmptyModel EXCEPT
     !.id = net.id,
     !.reactions = [i \in 1..Len(net.rxns) |->
        [REACTION_NAMES |-> net.rxns[i], ID |-> i, LB |-> b[1], UB |-> b[2],
         EXCH |-> i \in Range(net.exch), EXCH_IND |-> ExchInd(net.exch, i),
         V_MAX |-> NaN, KM |-> NaN, HILL |-> NaN]],
     !.metabolites = net.mets,
     !.smat = net.smat,
     !.default_bounds = b,
     !.objective = net.obj,
     !.optimizer = solver[1],
     !.obj_style = solver[2]]

\* self.reactions['REACTION_NAMES'].values
ReactionNames(mm) == {mm.reactions[i].REACTION_NAMES : i \in 1..Len(mm.reactions)}
\* the row labels of self.reactions (a RangeIndex 0..n-1)
ReactionLabels(mm) == 0..(Len(mm.reactions) - 1)

\* self.reactions.loc[REACTION_NAMES == reaction, col] = v
SetCol(mm, reaction, col, v) ==
  [mm EXCEPT !.reactions = [i \in 1..Len(mm.reactions) |->
     IF mm.reactions[i].REACTION_NAMES = reaction
     THEN [mm.reactions[i] EXCEPT ![col] = v] ELSE mm.reactions[i]]]

change_bounds(mm, reaction, lb, ub) ==
  IF reaction \notin ReactionNames(mm) THEN mm
  ELSE SetCol(SetCol(mm, reaction, "LB", lb), reaction, "UB", ub)

change_vmax(mm, reaction, vmax) ==
  IF reaction \notin ReactionNames(mm) THEN mm
  ELSE SetCol([mm EXCEPT !.vmax_flag = TRUE], reaction, "V_MAX", vmax)

change_km(mm, reaction, km) ==
  IF reaction \notin ReactionNames(mm) THEN mm
  ELSE SetCol([mm EXCEPT !.km_flag = TRUE], reaction, "KM", km)

change_hill(mm, reaction, hill) ==
  IF reaction \notin ReactionNames(mm) THEN mm
  ELSE SetCol([mm EXCEPT !.hill_flag = TRUE], reaction, "HILL", hill)

\* model.add_light: `reaction not in self.reactions['REACTION_NAMES']` tests
\* membership in the row labels of the Series, not in its values.  The
\* reaction is a token: a word (a name) or a number.
LightAccepted(mm, reaction) == reaction.k = "n" /\ reaction.n \in ReactionLabels(mm)
add_light(mm, reaction, abs_coefficient, abs_base) ==
  IF ~LightAccepted(mm, reaction) THEN mm
  ELSE [mm EXCEPT !.light = Append(@, <<reaction, N(abs_coefficient), N(abs_base)>>),
                  !.light_flag = TRUE]

add_neutral_drift_parameter(mm, sigma) ==
  [mm EXCEPT !.neutral_drift_flag = TRUE, !.neutralDriftSigma = sigma]

ConvectionKeys == <<"packedDensity", "elasticModulus", "frictionConstant",
                    "convDiffConstant">>
NonlinKeys == <<"convNonLinDiffZero", "convNonlinDiffN", "convNonlinDiffExponent",
                "convNonlinDiffHillN", "convNonlinDiffHillK">>

\* the parameter dictionaries are kept as the sequence of their values in
\* key insertion order (ConvectionKeys, NonlinKeys); the values are floats,
\* held in tenths (1. is 10, .9 is 9)
add_convection_parameters(mm, vals) ==
  [mm EXCEPT !.convection_flag = TRUE, !.convection_parameters = vals]

add_nonlinear_diffusion_parameters(mm, vals) ==
  [mm EXCEPT !.nonlinear_diffusion_flag = TRUE,
             !.nonlinear_diffusion_parameters = vals]

add_noise_variance_parameter(mm, v) ==
  [mm EXCEPT !.noise_variance_flag = TRUE, !.noise_variance = v]

\* model.add_signal: one row appended to self.signals
add_signal(mm, rxn_num, exch_ind, bound, function, parms) ==
  [mm EXCEPT !.signals = Append(@,
     [REACTION_NUMBER |-> rxn_num, EXCH_IND |-> exch_ind, BOUND |-> bound,
      FUNCTION |-> function, PARAMETERS |-> parms])]

\* ---------------------------------------------------------------- write_comets_model
\* rows of a table rendered as lines: one token per column
BoundsRow(r) == <<N(r.ID), N(r.LB), N(r.UB)>>

\* bnd with the two tests joined by `and`: a row only when both bounds differ
bnd_both(mm) ==
  Map(SelectSeq(mm.reactions,
                LAMBDA r : r.LB # mm.default_bounds[1] /\ r.UB # mm.default_bounds[2]),
      BoundsRow)

\* bnd: the rows whose LB or UB differs from the default pair (lines 618-625)
bnd(mm) ==
  Map(SelectSeq(mm.reactions,
                LAMBDA r : r.LB # mm.default_bounds[1] \/ r.UB # mm.default_bounds[2]),
      BoundsRow)

\* exch_r: the IDs of the exchange reactions in table order (lines 635-636)
exch_r(mm) == Map(SelectSeq(mm.reactions, LAMBDA r : r.EXCH), LAMBDA r : N(r.ID))

\* Vmax / Km / Hill: (EXCH_IND, value) of the rows whose value is not null
KineticRows(mm, col) ==
  Map(SelectSeq(mm.reactions, LAMBDA r : r[col] # NaN),
      LAMBDA r : <<N(r.EXCH_IND), N(r[col])>>)

\* lines 665-690: the six sections every model file has
WriteRequired(mm) ==
     << <<W("SMATRIX"), N(Len(mm.metabolites)), N(Len(mm.reactions))>> >>
  \o Map(mm.smat, LAMBDA t : <<N(t[1]), N(t[2]), N(t[3])>>)
  \o <<Term>>
  \o << <<W("BOUNDS"), N(mm.default_bounds[1]), N(mm.default_bounds[2])>> >>
  \o bnd(mm)
  \o <<Term>>
  \o << <<W("OBJECTIVE")>>, <<N(mm.objective)>>, Term >>
  \o << <<W("METABOLITE_NAMES")>> >>
  \o Map(mm.metabolites, LAMBDA x : <<W(x)>>)
  \o <<Term>>
  \o << <<W("REACTION_NAMES")>> >>
  \o Map(mm.reactions, LAMBDA r : <<W(r.REACTION_NAMES)>>)
  \o <<Term>>
  \o << <<W("EXCHANGE_REACTIONS")>>, exch_r(mm), Term >>

\* lines 692-708
WriteKinetic(mm) ==
     (IF mm.vmax_flag
      THEN << <<W("VMAX_VALUES"), N(mm.default_vmax)>> >> \o KineticRows(mm, "V_MAX")
           \o <<Term>>
      ELSE <<>>)
  \o (IF mm.km_flag
      THEN << <<W("KM_VALUES"), N(mm.default_km)>> >> \o KineticRows(mm, "KM")
           \o <<Term>>
      ELSE <<>>)
  \o (IF mm.hill_flag
      THEN << <<W("HILL_VALUES"), N(mm.default_hill)>> >> \o KineticRows(mm, "HILL")
           \o <<Term>>
      ELSE <<>>)

\* lines 713-714: int(self.reactions.ID[REACTION_NAMES == lrxn[0]]) needs
\* exactly one matching row, otherwise int() of the Series raises TypeError
LightMatches(mm, lrxn) ==
  {i \in 1..Len(mm.reactions) :
     lrxn[1].k = "w" /\ mm.reactions[i].REACTION_NAMES = lrxn[1].s}
LightRowOk(mm, lrxn) == Cardinality(LightMatches(mm, lrxn)) = 1
LightRow(mm, lrxn) ==
  <<N(mm.reactions[CHOOSE i \in LightMatches(mm, lrxn) : TRUE].ID), lrxn[2], lrxn[3]>>
\* the light rows written before the first row that raises
LightBad(mm) == {i \in 1..Len(mm.light) : ~LightRowOk(mm, mm.light[i])}
LightRows(mm) ==
  LET n == IF LightBad(mm) = {} THEN Len(mm.light) ELSE Min(LightBad(mm)) - 1
  IN  [i \in 1..n |-> LightRow(mm, mm.light[i])]

\* lines 719-736
WriteSignals(mm) ==
  IF Len(mm.signals) > 0
  THEN << <<W("MET_REACTION_SIGNAL")>> >>
       \o Map(mm.signals, LAMBDA sg :
                <<sg.REACTION_NUMBER, N(sg.EXCH_IND), W(sg.BOUND), W(sg.FUNCTION)>>
                \o Map(sg.PARAMETERS, N))
       \o <<Term>>
  ELSE <<>>

KeyLines(keys, vals) ==
  Flatten([i \in 1..Len(vals) |-> << <<W(keys[i]), N(vals[i])>>, Term >>])

\* lines 738-761
WriteTail(mm) ==
     WriteSignals(mm)
  \o (IF mm.convection_flag THEN KeyLines(ConvectionKeys, mm.convection_parameters)
      ELSE <<>>)
  \o (IF mm.nonlinear_diffusion_flag
      THEN KeyLines(NonlinKeys, mm.nonlinear_diffusion_parameters) ELSE <<>>)
  \o (IF mm.noise_variance_flag
      THEN << <<W("noiseVariance"), N(mm.noise_variance)>>, Term >> ELSE <<>>)
  \o (IF mm.neutral_drift_flag
      THEN << <<W("neutralDrift"), W("true")>>, Term,
              <<W("neutralDriftSigma"), N(mm.neutralDriftSigma)>>, Term >>
      ELSE <<>>)
  \o << <<W("OBJECTIVE_STYLE")>>, <<W(mm.obj_style)>>, Term >>
  \o << <<W("OPTIMIZER"), W(mm.optimizer)>>, Term >>

\* model.write_comets_model: the lines of the file left on disk and how the
\* call ended.  A light row that raises ends the call inside the LIGHT
\* section; what was written before stays in the file.
write_comets_model(mm) ==
  LET pre == WriteRequired(mm) \o WriteKinetic(mm)
  IN  IF mm.light_flag /\ LightBad(mm) # {}
      THEN [lines |-> pre \o << <<W("LIGHT")>> >> \o LightRows(mm),
            status |-> "TypeError"]
      ELSE [lines |-> pre
                      \o (IF mm.light_flag
                          THEN << <<W("LIGHT")>> >> \o LightRows(mm) \o <<Term>>
                          ELSE <<>>)
                      \o WriteTail(mm),
            status |-> "ok"]

\* ---------------------------------------------------------------- scanning a file
\* (longer word, keyword) pairs in which the keyword is a proper substring of
\* the longer word; `K in filedata_string` and re.split(K, ...) match inside
\* any such word.
Substrings ==
  { <<"OBJECTIVE_STYLE", "OBJECTIVE">>, <<"MAXIMIZE_OBJECTIVE_FLUX", "OBJECTIVE">>,
    <<"MAX_OBJECTIVE_MIN_TOTAL", "OBJECTIVE">>,
    <<"neutralDriftSigma", "neutralDrift">>,
    <<"neutralDriftsigma", "neutralDrift">> }

Contains(tok, K) == tok.k = "w" /\ (tok.s = K \/ <<tok.s, K>> \in Substrings)
LineHas(line, K) == \E i \in 1..Len(line) : Contains(line[i], K)
FileHas(lines, K) == \E k \in 1..Len(lines) : LineHas(lines[k], K)

\* Python indices are 0-based: L(lines, k) is m_f_lines[k]; k = -1 is the
\* last line.
InRange(lines, k) == k >= -Len(lines) /\ k < Len(lines)
L(lines, k) == IF k >= 0 THEN lines[k + 1] ELSE lines[Len(lines) + k + 1]

\* ends: the indices of the lines that contain '//' (lines 396-399)
Ends(lines) == {k \in 0..(Len(lines) - 1) : LineHas(lines[k + 1], "//")}

\* re.split(K, m_filedata_string)[0].count('\n'): the index of the first
\* line that contains K; the index of the last line when no line does.
LineOf(lines, K) ==
  IF FileHas(lines, K)
  THEN Min({k \in 0..(Len(lines) - 1) : LineHas(lines[k + 1], K)})
  ELSE Len(lines) - 1

\* next(x for x in ends if x > lin): raises StopIteration when there is none
HasEnd(lines, lin) == \E x \in Ends(lines) : x > lin
NextEnd(lines, lin) == Min({x \in Ends(lines) : x > lin})

\* m_f_lines[a:b]
Slice(lines, a, b) == [i \in 1..(IF b > a THEN b - a ELSE 0) |-> lines[a + i]]

\* float(token) / int(token)
IsNum(tok) == tok.k = "n"

\* pd.read_csv(lines[lin:lin_end], delimiter=r'\s+'): the first line is the
\* header row, the rest are the data rows; rows of another width than the
\* header do not give the table the caller renames the columns of.
CsvHeader(lines, lin) == L(lines, lin)
CsvRows(lines, lin, lin_end) == Slice(lines, lin + 1, lin_end)
CsvOk(lines, lin, lin_end, ncol) ==
  /\ Len(CsvHeader(lines, lin)) = ncol
  /\ \A i \in 1..Len(CsvRows(lines, lin, lin_end)) :
       Len(CsvRows(lines, lin, lin_end)[i]) = ncol

\* read_csv's duplicate-column renaming followed by float(): the label of a
\* header field equal to an earlier one gets ".1" appended.  Values are in
\* tenths; a label that already has a fractional part ("0.5.1") is no float.
MangledOk(hdr, j) ==
  /\ IsNum(hdr[j])
  /\ (\E i \in 1..(j - 1) : hdr[i] = hdr[j]) => hdr[j].n % 10 = 0
MangledFloat(hdr, j) ==
  IF \E i \in 1..(j - 1) : hdr[i] = hdr[j]
  THEN (IF hdr[j].n >= 0 THEN hdr[j].n + 1 ELSE hdr[j].n - 1)
  ELSE hdr[j].n

\* ---------------------------------------------------------------- read_comets_model
\* The read is a chain of steps over a record: self (the Model being
\* filled), the local tables `reactions` and `metabolites`, and how the call
\* has ended so far.  A step after a raised exception does nothing.
Raise(st, e) == [st EXCEPT !.status = e]

\* lines 402-410
ReadSmat(st, lines) ==
  LET lin == LineOf(lines, "SMATRIX") IN
  IF ~HasEnd(lines, lin) THEN Raise(st, "StopIteration")
  ELSE LET e == NextEnd(lines, lin) IN
       IF ~CsvOk(lines, lin, e, 3) THEN Raise(st, "ValueError")
       ELSE [st EXCEPT !.self.smat =
               Map(CsvRows(lines, lin, e), LAMBDA r : <<r[1].n, r[2].n, r[3].n>>)]

\* A row of the local table `reactions`; the columns the later steps add
\* (EXCH, EXCH_IND, V_MAX, KM, HILL) are present from the start and are
\* overwritten by those steps before the table is assigned to self.
Row(name, id, lb, ub) ==
  [REACTION_NAMES |-> name, ID |-> id, LB |-> lb, UB |-> ub,
   EXCH |-> FALSE, EXCH_IND |-> 0, V_MAX |-> NaN, KM |-> NaN, HILL |-> NaN]

\* pd.merge(rxn, bnds, on='ID', how='left') and the two fillna (lines 438-442)
MergeBounds(names, rows, dflt) ==
  Flatten([i \in 1..Len(names) |->
    LET hit == SelectSeq(rows, LAMBDA r : r[1].n = i) IN
    IF hit = <<>>
    THEN << Row(names[i], i, dflt[1], dflt[2]) >>
    ELSE Map(hit, LAMBDA r : Row(names[i], i, r[2].n, r[3].n))])

\* lines 413-442
ReadBounds(st, lines) ==
  LET lin_rxns == LineOf(lines, "REACTION_NAMES")
      lin_bnds == LineOf(lines, "BOUNDS")
  IN
  IF st.status # "ok" THEN st
  ELSE IF ~HasEnd(lines, lin_rxns) THEN Raise(st, "StopIteration")
  ELSE IF ~CsvOk(lines, lin_rxns, NextEnd(lines, lin_rxns), 1)
       THEN Raise(st, "ValueError")
  ELSE IF ~HasEnd(lines, lin_bnds) THEN Raise(st, "StopIteration")
  ELSE LET hdr == CsvHeader(lines, lin_bnds)
           e == NextEnd(lines, lin_bnds)
           names == Map(CsvRows(lines, lin_rxns, NextEnd(lines, lin_rxns)),
                        LAMBDA r : r[1].s)
       IN
       IF Len(hdr) < 3 THEN Raise(st, "IndexError")
       ELSE IF ~MangledOk(hdr, 2) \/ ~MangledOk(hdr, 3) \/ ~CsvOk(lines, lin_bnds, e, 3)
            THEN Raise(st, "ValueError")
       ELSE [st EXCEPT !.reactions =
               MergeBounds(names, CsvRows(lines, lin_bnds, e),
                           <<MangledFloat(hdr, 2), MangledFloat(hdr, 3)>>)]

\* lines 445-452
ReadMetabolites(st, lines) ==
  LET lin == LineOf(lines, "METABOLITE_NAMES") IN
  IF st.status # "ok" THEN st
  ELSE IF ~HasEnd(lines, lin) THEN Raise(st, "StopIteration")
  ELSE IF ~CsvOk(lines, lin, NextEnd(lines, lin), 1) THEN Raise(st, "ValueError")
  ELSE [st EXCEPT !.metabolites =
          Map(CsvRows(lines, lin, NextEnd(lines, lin)), LAMBDA r : r[1].s)]

\* lines 455-465: exch is the list of the IDs on the line after the header
ReadExchange(st, lines) ==
  LET lin_exch == LineOf(lines, "EXCHANGE_REACTIONS") + 1 IN
  IF st.status # "ok" THEN st
  ELSE IF ~InRange(lines, lin_exch) THEN Raise(st, "IndexError")
  ELSE LET line == L(lines, lin_exch) IN
       IF \E i \in 1..Len(line) : ~IsNum(line[i]) THEN Raise(st, "ValueError")
       ELSE LET exch == Map(line, LAMBDA t : t.n) IN
            [st EXCEPT !.reactions = Map(st.reactions, LAMBDA r :
               [r EXCEPT !.EXCH = r.ID \in Range(exch),
                         !.EXCH_IND = ExchInd(exch, r.ID)])]

\* pd.merge(reactions, Vmax, on='EXCH_IND', how='left'): one output row per
\* matching row of the section, the null value when none matches
MergeKinetic(reactions, rows, col) ==
  Flatten([i \in 1..Len(reactions) |->
    LET hit == SelectSeq(rows, LAMBDA r : r[1].n = reactions[i].EXCH_IND) IN
    IF hit = <<>> THEN << reactions[i] >>
    ELSE Map(hit, LAMBDA r : [reactions[i] EXCEPT ![col] = r[2].n])])

\* lines 468-529, one of the three blocks: K is the keyword looked for, flag
\* the flag set, col the column merged, dflt the default read from
\* m_f_lines[lin-1].split()[1], the line BEFORE the header
ReadKinetic(st, lines, K, flag, col, dflt) ==
  LET lin == LineOf(lines, K) IN
  IF st.status # "ok" \/ ~FileHas(lines, K) THEN st
  ELSE LET st1 == [st EXCEPT !.self[flag] = TRUE] IN
       IF ~HasEnd(lines, lin) THEN Raise(st1, "StopIteration")
       ELSE IF ~CsvOk(lines, lin, NextEnd(lines, lin), 2) THEN Raise(st1, "ValueError")
       ELSE LET prev == L(lines, lin - 1)
                st2 == [st1 EXCEPT !.reactions =
                          MergeKinetic(st.reactions,
                                       CsvRows(lines, lin, NextEnd(lines, lin)), col)]
            IN  IF Len(prev) < 2 THEN Raise(st2, "IndexError")
                ELSE IF ~IsNum(prev[2]) THEN Raise(st2, "ValueError")
                ELSE [st2 EXCEPT !.self[dflt] = prev[2].n]

\* lines 532-547
ReadObjective(st, lines) ==
  LET lin_obj == LineOf(lines, "OBJECTIVE") + 1 IN
  IF st.status # "ok" THEN st
  ELSE IF ~InRange(lines, lin_obj) THEN Raise(st, "IndexError")
  ELSE IF Len(L(lines, lin_obj)) # 1 \/ ~IsNum(L(lines, lin_obj)[1])
       THEN Raise(st, "ValueError")
  ELSE [st EXCEPT !.self.objective = L(lines, lin_obj)[1].n]

\* obj_style is the whole stripped line after the header: its one word
ReadObjectiveStyle(st, lines) ==
  LET lin_obj_st == LineOf(lines, "OBJECTIVE_STYLE") + 1 IN
  IF st.status # "ok" \/ ~FileHas(lines, "OBJECTIVE_STYLE") THEN st
  ELSE IF ~InRange(lines, lin_obj_st) THEN Raise(st, "IndexError")
  ELSE [st EXCEPT !.self.obj_style =
          IF Len(L(lines, lin_obj_st)) = 1 /\ L(lines, lin_obj_st)[1].k = "w"
          THEN L(lines, lin_obj_st)[1].s ELSE "other"]

ReadOptimizer(st, lines) ==
  LET lin_opt == LineOf(lines, "OPTIMIZER") IN
  IF st.status # "ok" \/ ~FileHas(lines, "OPTIMIZER") THEN st
  ELSE IF Len(L(lines, lin_opt)) < 2 THEN Raise(st, "IndexError")
  ELSE [st EXCEPT !.self.optimizer =
          IF L(lines, lin_opt)[2].k = "w" THEN L(lines, lin_opt)[2].s ELSE "other"]

\* lines 549-559: `upper` is not defined anywhere in the module, so the
\* comparison raises NameError whenever the file has a neutralDrift line
ReadNeutralDrift(st, lines) ==
  IF st.status # "ok" \/ ~FileHas(lines, "neutralDrift") THEN st
  ELSE Raise(st, "NameError")

\* lines 562-596, one loop: each key found in the file sets its value; the
\* first one finds no dictionary on self, sets the flag and the defaults
ReadKeys(st, lines, keys, flag, field, dflts) ==
  LET RECURSIVE Go(_, _)
      Go(s, i) ==
        IF i > Len(keys) \/ s.status # "ok" THEN s
        ELSE IF ~FileHas(lines, keys[i]) THEN Go(s, i + 1)
        ELSE LET line == L(lines, LineOf(lines, keys[i])) IN
             IF Len(line) < 2 THEN Raise(s, "IndexError")
             ELSE IF ~IsNum(line[2]) THEN Raise(s, "ValueError")
             ELSE LET base == IF s.self[field] = <<>> THEN dflts ELSE s.self[field]
                  IN  Go([s EXCEPT !.self[flag] = (s.self[field] = <<>>) \/ @,
                                   !.self[field] = [base EXCEPT ![i] = line[2].n]],
                         i + 1)
  IN  Go(st, 1)

\* lines 598-605
ReadNoise(st, lines) ==
  LET line == L(lines, LineOf(lines, "noiseVariance")) IN
  IF st.status # "ok" \/ ~FileHas(lines, "noiseVariance") THEN st
  ELSE IF Len(line) < 2 THEN Raise(st, "IndexError")
  ELSE IF ~IsNum(line[2]) THEN Raise(st, "ValueError")
  ELSE [st EXCEPT !.self.noise_variance_flag = TRUE,
                  !.self.noise_variance = line[2].n]

\* lines 607-608
ReadAssign(st) ==
  IF st.status # "ok" THEN st
  ELSE [st EXCEPT !.self.reactions = st.reactions,
                  !.self.metabolites = st.metabolites]

\* model.read_comets_model on a freshly constructed Model (model(path)):
\* [self |-> the Model, status |-> "ok" or the exception raised]
read_comets_model(id, lines) ==
  LET s0 == [self |-> [EmptyModel EXCEPT !.id = id], status |-> "ok",
             reactions |-> <<>>, metabolites |-> <<>>]
      s1 == ReadExchange(ReadMetabolites(ReadBounds(ReadSmat(s0, lines), lines),
                                         lines), lines)
      s2 == ReadKinetic(s1, lines, "VMAX_VALUES", "vmax_flag", "V_MAX", "default_vmax")
      s3 == ReadKinetic(s2, lines, "KM_VALUES", "km_flag", "KM", "default_km")
      s4 == ReadKinetic(s3, lines, "HILL_COEFFICIENTS", "hill_flag", "HILL",
                        "default_hill")
      s5 == ReadNeutralDrift(ReadOptimizer(ReadObjectiveStyle(
                               ReadObjective(s4, lines), lines), lines), lines)
      s6 == ReadKeys(s5, lines, ConvectionKeys, "convection_flag",
                     "convection_parameters", <<10, 10, 10, 10>>)
      s7 == ReadKeys(s6, lines, NonlinKeys, "nonlinear_diffusion_flag",
                     "nonlinear_diffusion_parameters", <<10, 10, 10, 100, 9>>)
      s8 == ReadAssign(ReadNoise(s7, lines))
  IN  [self |-> s8.self, status |-> s8.status]

\* ---------------------------------------------------------------- the Model workflow
NoFile == [lines |-> <<>>, status |-> "none"]
NoRead == [self |-> EmptyModel, status |-> "none"]

BoundArgs == {<<-100, 100>>, <<0, 10000>>}
LightArgs == {W("r1"), N(0), N(7)}
ReactionArgs(mm) == ReactionNames(mm) \cup {"nope"}

MStep(mm) ==
  /\ mpc = "build" /\ mops < MaxOps
  /\ m' = mm /\ mops' = mops + 1
  /\ UNCHANGED <<mfile, mres, mpc, lvars>>

MChangeBounds ==
  \E reaction \in ReactionArgs(m), b \in BoundArgs :
    MStep(change_bounds(m, reaction, b[1], b[2]))
\* the value given to change_vmax, change_km, change_hill: a number or float('nan')
MChangeVmax ==
  \E reaction \in ReactionArgs(m), vmax \in {5, NaN} : MStep(change_vmax(m, reaction, vmax))
MChangeKm ==
  \E reaction \in ReactionArgs(m), km \in {2, NaN} : MStep(change_km(m, reaction, km))
MChangeHill ==
  \E reaction \in ReactionArgs(m), hill \in {3, NaN} : MStep(change_hill(m, reaction, hill))
MAddLight == \E reaction \in LightArgs : MStep(add_light(m, reaction, 5, 9))
MAddSignal == MStep(add_signal(m, W("death"), 1, "ub", "linear", <<1, 2>>))
MAddNeutralDrift == MStep(add_neutral_drift_parameter(m, 1))
MAddConvection == MStep(add_convection_parameters(m, <<20, 30, 40, 50>>))
MAddNonlinear == MStep(add_nonlinear_diffusion_parameters(m, <<20, 30, 40, 50, 60>>))
MAddNoise == MStep(add_noise_variance_parameter(m, 7))

MWrite ==
  /\ mpc = "build"
  /\ mfile' = write_comets_model(m)
  /\ mpc' = "written"
  /\ UNCHANGED <<m, mres, mops, lvars>>

MRead ==
  /\ mpc = "written"
  /\ mres' = read_comets_model(m.id, mfile.lines)
  /\ mpc' = "read"
  /\ UNCHANGED <<m, mfile, mops, lvars>>

LayoutIdle == lyt = 0 /\ lfile = 0 /\ lres = 0 /\ lpc = "idle" /\ lops = 0

InitModel ==
  /\ \E net \in Nets, b \in DefaultPairs, solver \in Solvers :
       m = load_cobra_model(net, b, solver)
  /\ mfile = NoFile /\ mres = NoRead /\ mpc = "build" /\ mops = 0
  /\ LayoutIdle

NextModel ==
  \/ MChangeBounds \/ MChangeVmax \/ MChangeKm \/ MChangeHill
  \/ MAddLight \/ MAddSignal \/ MAddNeutralDrift \/ MAddConvection
  \/ MAddNonlinear \/ MAddNoise
  \/ MWrite \/ MRead

SpecModel == InitModel /\ [][NextModel]_vars

\* ---------------------------------------------------------------- reading a given model file
\* The bound on the length of an EXCHANGE_REACTIONS line of a file that was
\* not produced by write_comets_model.
MaxExchLen == 3

RECURSIVE SeqsUpTo(_, _)
SeqsUpTo(S, n) ==
  IF n = 0 THEN {<<>>}
  ELSE SeqsUpTo(S, n - 1)
       \cup {Append(s, x) : s \in {t \in SeqsUpTo(S, n - 1) : Len(t) = n - 1}, x \in S}

\* the file with the line after the EXCHANGE_REACTIONS header replaced
WithExchangeLine(lines, ids) ==
  [lines EXCEPT ![LineOf(lines, "EXCHANGE_REACTIONS") + 2] = Map(ids, N)]

InitModelFile ==
  /\ \E net \in Nets, b \in DefaultPairs, solver \in Solvers,
        ids \in SeqsUpTo(1..4, MaxExchLen) :
       /\ m = load_cobra_model(net, b, solver)
       /\ mfile = [lines |-> WithExchangeLine(write_comets_model(m).lines, ids),
                   status |-> "ok"]
  /\ mres = NoRead /\ mpc = "written" /\ mops = 0
  /\ LayoutIdle

NextModelFile == MRead

SpecModelFile == InitModelFile /\ [][NextModelFile]_vars

\* ---------------------------------------------------------------- claims on the model codec
\* the lines between the header line of section K and its terminator
SectionBody(lines, K) ==
  Slice(lines, LineOf(lines, K) + 1, NextEnd(lines, LineOf(lines, K)))

(* C1: reading the file that write_comets_model produced for a Model gives *)
(* a Model equal to it field by field: both calls end normally and every   *)
(* field of the Model read equals the field of the Model written.          *)
C1_ModelRoundTrip ==
  mpc = "read" => mfile.status = "ok" /\ mres.status = "ok" /\ mres.self = m

AllDefaultBounds(mm) ==
  \A i \in 1..Len(mm.reactions) :
    /\ mm.reactions[i].LB = mm.default_bounds[1]
    /\ mm.reactions[i].UB = mm.default_bounds[2]

(* C3: when every reaction of the Model has the default pair as its bounds, *)
(* the written BOUNDS section has an empty body and the Model read back     *)
(* has, for every reaction, LB and UB equal to the pair on the BOUNDS       *)
(* header, whatever that pair is.                                           *)
C3_SparseBoundsRoundTrip ==
  mpc = "read" /\ AllDefaultBounds(m) =>
    /\ SectionBody(mfile.lines, "BOUNDS") = <<>>
    /\ mres.status = "ok"
    /\ Len(mres.self.reactions) = Len(m.reactions)
    /\ \A i \in 1..Len(mres.self.reactions) :
         /\ mres.self.reactions[i].LB = m.default_bounds[1]
         /\ mres.self.reactions[i].UB = m.default_bounds[2]

Overridden(mm, i) ==
  \/ mm.reactions[i].LB # mm.default_bounds[1]
  \/ mm.reactions[i].UB # mm.default_bounds[2]

(* C4: the body of the written BOUNDS section has exactly one row          *)
(* (ID, LB, UB) for each reaction whose LB or UB differs from the default   *)
(* pair, no row for a reaction at the default pair, and no other row.       *)
C4_BoundsBodySparse ==
  mpc # "build" =>
    LET body == SectionBody(mfile.lines, "BOUNDS") IN
    /\ \A i \in 1..Len(m.reactions) :
         Cardinality({k \in 1..Len(body) : Len(body[k]) >= 1 /\ body[k][1] = N(i)})
           = IF Overridden(m, i) THEN 1 ELSE 0
    /\ \A k \in 1..Len(body) :
         \E i \in 1..Len(m.reactions) :
           body[k] = <<N(m.reactions[i].ID), N(m.reactions[i].LB), N(m.reactions[i].UB)>>

\* the scenario of the specification: default [0, 1000], r1 at [-10, 10]
C4_Witness ==
  /\ mpc = "written" /\ m.id = "a" /\ m.default_bounds = <<0, 10000>>
  /\ SectionBody(mfile.lines, "BOUNDS") = << <<N(1), N(-100), N(100)>> >>
  /\ ~Overridden(m, 2)

(* C5: in a Model that read_comets_model produced, the exchange reactions  *)
(* carry the exchange indices 1..E, each exactly once (E the number of      *)
(* exchange reactions), and every other reaction carries 0.                 *)
C5_ExchangeBijection ==
  mpc = "read" /\ mres.status = "ok" =>
    LET rs == mres.self.reactions
        X == {i \in 1..Len(rs) : rs[i].EXCH}
    IN  /\ {rs[i].EXCH_IND : i \in X} = 1..Cardinality(X)
        /\ \A i, j \in X : rs[i].EXCH_IND = rs[j].EXCH_IND => i = j
        /\ \A i \in (1..Len(rs)) \ X : rs[i].EXCH_IND = 0

\* the keywords that open a section of a model file
ModelHeaders ==
  {"SMATRIX", "BOUNDS", "OBJECTIVE", "METABOLITE_NAMES", "REACTION_NAMES",
   "EXCHANGE_REACTIONS", "VMAX_VALUES", "KM_VALUES", "HILL_VALUES", "LIGHT",
   "MET_REACTION_SIGNAL", "noiseVariance", "neutralDrift", "neutralDriftSigma",
   "OBJECTIVE_STYLE", "OPTIMIZER"} \cup Range(ConvectionKeys) \cup Range(NonlinKeys)

IsHeader(line) == Len(line) >= 1 /\ line[1].k = "w" /\ line[1].s \in ModelHeaders
HeaderWords(lines) == Map(SelectSeq(lines, IsHeader), LAMBDA line : line[1].s)

Opt(flag, words) == IF flag THEN words ELSE <<>>
CanonicalOrder(mm) ==
     <<"SMATRIX", "BOUNDS", "OBJECTIVE", "METABOLITE_NAMES", "REACTION_NAMES",
       "EXCHANGE_REACTIONS">>
  \o Opt(mm.vmax_flag, <<"VMAX_VALUES">>) \o Opt(mm.km_flag, <<"KM_VALUES">>)
  \o Opt(mm.hill_flag, <<"HILL_VALUES">>) \o Opt(mm.light_flag, <<"LIGHT">>)
  \o Opt(mm.signals # <<>>, <<"MET_REACTION_SIGNAL">>)
  \o Opt(mm.convection_flag, ConvectionKeys)
  \o Opt(mm.nonlinear_diffusion_flag, NonlinKeys)
  \o Opt(mm.noise_variance_flag, <<"noiseVariance">>)
  \o Opt(mm.neutral_drift_flag, <<"neutralDrift", "neutralDriftSigma">>)
  \o <<"OBJECTIVE_STYLE", "OPTIMIZER">>

(* C8: the section headers of the written model file are, in this order,   *)
(* the six required ones, then those of the optional sections whose flag or *)
(* content is set (and no other), then OBJECTIVE_STYLE and OPTIMIZER; every *)
(* section is closed by a terminator line before the next header and at the *)
(* end of the file.                                                         *)
C8_WriteOrder ==
  mpc # "build" =>
    LET lines == mfile.lines IN
    /\ HeaderWords(lines) = CanonicalOrder(m)
    /\ \A k \in 2..Len(lines) : IsHeader(lines[k]) => lines[k - 1] = Term
    /\ lines[Len(lines)] = Term

\* ---------------------------------------------------------------- Layout
\* layout.__init__ defaults.  default_diff_c (5.0e-6) is held in units of
\* 1e-6.
default_diff_c == 5
default_g_static == 0
default_g_static_val == 0
default_g_refresh == 0

\* the alphabetical order of the metabolite names, for sorted()
MetRank == [ac_e |-> 1, glc_e |-> 2, nh4_e |-> 3, o2_e |-> 4]

RECURSIVE SortedNames(_)
SortedNames(S) ==
  IF S = {} THEN <<>>
  ELSE LET x == CHOOSE y \in S : \A z \in S : MetRank[y] <= MetRank[z]
       IN  <<x>> \o SortedNames(S \ {x})

\* A Model as a Layout uses it: its id, the names get_exchange_metabolites
\* returns (in reaction order), and initial_pop: the rows, and whether the
\* attribute is a list of rows (nested) or one bare row [x, y, amount].
LModel(id, exch, nested, rows) ==
  [id |-> id, exch |-> exch, initial_pop |-> [nested |-> nested, rows |-> rows]]

ExchOf == [a |-> <<"o2_e", "glc_e">>, b |-> <<"ac_e", "o2_e">>]

\* region_map None is the empty sequence; a dictionary keyed by location is
\* the sequence of its entries [loc, vals] in insertion order, vals the inner
\* dictionary as a function from metabolite names to values.
EmptyLayout ==
  [models |-> <<>>, grid |-> <<1, 1>>, media |-> <<>>,
   local_media |-> <<>>, global_diff |-> None, local_refresh |-> <<>>,
   local_static |-> <<>>, initial_pop_type |-> "custom", initial_pop |-> <<>>,
   all_exchanged_mets |-> <<>>, barriers |-> {}, reactions |-> <<>>,
   periodic_media |-> <<>>, region_map |-> <<>>, region_parameters |-> <<>>,
   local_media_flag |-> FALSE, diffusion_flag |-> FALSE, refresh_flag |-> FALSE,
   static_flag |-> FALSE, barrier_flag |-> FALSE, region_flag |-> FALSE,
   ext_rxns_flag |-> FALSE, periodic_media_flag |-> FALSE]

\* A row of the media table; label is its row label in the DataFrame index.
MediaRow(label, met, init_amount) ==
  [label |-> label, metabolite |-> met, init_amount |-> init_amount,
   diff_c |-> default_diff_c, g_static |-> default_g_static,
   g_static_val |-> default_g_static_val, g_refresh |-> default_g_refresh]

MediaNames(ly) == {ly.media[i].metabolite : i \in 1..Len(ly.media)}

\* layout.build_initial_pop: a bare row is wrapped into a list (on the
\* Model itself); one line [x, y, 0.., amount, ..0] per row of each model.
\* model.initial_pop[0] raises IndexError on an empty list.
InitialPopOk(ly) ==
  \A i \in 1..Len(ly.models) : ly.models[i].initial_pop.rows # <<>>
build_initial_pop(ly) ==
  LET n == Len(ly.models) IN
  [ly EXCEPT
     !.models = [i \in 1..n |-> [ly.models[i] EXCEPT !.initial_pop.nested = TRUE]],
     !.initial_pop = Flatten([i \in 1..n |->
        Map(ly.models[i].initial_pop.rows, LAMBDA pop :
              <<pop[1], pop[2]>> \o [j \in 1..n |-> IF j = i THEN pop[3] ELSE 0])])]

\* layout.build_exchanged_mets
build_exchanged_mets(ly) ==
  [ly EXCEPT !.all_exchanged_mets =
     SortedNames(UNION {Range(ly.models[i].exch) : i \in 1..Len(ly.models)})]

\* layout.add_new_mets_to_media: pd.concat(..., ignore_index=True) relabels
\* the rows 0..n-1 each time a row is added
add_new_mets_to_media(ly) ==
  LET new == SelectSeq(ly.all_exchanged_mets, LAMBDA x : x \notin MediaNames(ly))
      all == ly.media \o Map(new, LAMBDA x : MediaRow(0, x, 0))
  IN  IF new = <<>> THEN ly
      ELSE [ly EXCEPT !.media = [i \in 1..Len(all) |-> [all[i] EXCEPT !.label = i - 1]]]

\* layout.update_models (the caller sees to InitialPopOk)
update_models(ly) == add_new_mets_to_media(build_exchanged_mets(build_initial_pop(ly)))

\* layout.add_model
add_model(ly, model) == update_models([ly EXCEPT !.models = Append(@, model)])

\* ---- dictionaries keyed by location
DictKeys(d) == {d[i].loc : i \in 1..Len(d)}
DictGet(d, loc) == d[CHOOSE i \in 1..Len(d) : d[i].loc = loc].vals
\* d[loc][met] = v, with d[loc] = {} first when loc is a new key
DictSet(d, loc, met, v) ==
  LET d1 == IF loc \in DictKeys(d) THEN d ELSE Append(d, [loc |-> loc, vals |-> <<>>])
  IN  [i \in 1..Len(d1) |->
         IF d1[i].loc = loc
         THEN [d1[i] EXCEPT !.vals =
                 [x \in DOMAIN d1[i].vals \cup {met} |->
                    IF x = met THEN v ELSE d1[i].vals[x]]]
         ELSE d1[i]]
\* d[loc] = vals, replacing the value of an existing key in place
DictPut(d, loc, vals) ==
  IF loc \in DictKeys(d)
  THEN [i \in 1..Len(d) |-> IF d[i].loc = loc THEN [d[i] EXCEPT !.vals = vals] ELSE d[i]]
  ELSE Append(d, [loc |-> loc, vals |-> vals])
\* the dictionary as a function, for == of two dictionaries
DictAsFn(d) == [loc \in DictKeys(d) |-> DictGet(d, loc)]

\* self.media.loc[self.media['metabolite'] == met, col] = v
SetMediaCol(ly, met, col, v) ==
  [ly EXCEPT !.media = [i \in 1..Len(ly.media) |->
     IF ly.media[i].metabolite = met THEN [ly.media[i] EXCEPT ![col] = v]
     ELSE ly.media[i]]]

\* layout.set_specific_metabolite: a new metabolite is appended by
\* pd.concat without ignore_index, so the new row keeps its own label 0
set_specific_metabolite(ly, met, amount) ==
  IF met \in MediaNames(ly) THEN SetMediaCol(ly, met, "init_amount", amount)
  ELSE [ly EXCEPT !.media = Append(@, MediaRow(0, met, amount))]

set_specific_metabolite_at_location(ly, met, location, amount) ==
  IF met \notin Range(ly.all_exchanged_mets) THEN ly
  ELSE [ly EXCEPT !.local_media_flag = TRUE,
                  !.local_media = DictSet(@, location, met, amount)]

set_specific_refresh(ly, met, amount) ==
  [SetMediaCol(ly, met, "g_refresh", amount) EXCEPT !.refresh_flag = TRUE]

set_specific_refresh_at_location(ly, met, location, amount) ==
  IF met \notin Range(ly.all_exchanged_mets) THEN ly
  ELSE [ly EXCEPT !.refresh_flag = TRUE,
                  !.local_refresh = DictSet(@, location, met, amount)]

set_specific_static(ly, met, amount) ==
  [SetMediaCol(SetMediaCol(ly, met, "g_static", 1), met, "g_static_val", amount)
     EXCEPT !.static_flag = TRUE]

set_specific_static_at_location(ly, met, location, amount) ==
  IF met \notin Range(ly.all_exchanged_mets) THEN ly
  ELSE [ly EXCEPT !.static_flag = TRUE,
                  !.local_static = DictSet(@, location, met, amount)]

\* layout.add_barriers: barriers is a list of pairs; a pair is kept when
\* b[0] < grid[0] and b[1] < grid[1]; the list is then deduplicated
add_barriers(ly, barriers) ==
  LET kept == ly.barriers \cup
              {b \in Range(barriers) : ~(b[1] >= ly.grid[1] \/ b[2] >= ly.grid[2])}
  IN  IF kept # {} THEN [ly EXCEPT !.barriers = kept, !.barrier_flag = TRUE]
      ELSE ly

\* region_map.shape of a list of rows
Shape(map) == IF map = <<>> THEN <<0>> ELSE <<Len(map), Len(map[1])>>

\* layout.set_region_map: ValueError unless the shape is the grid
set_region_map(ly, region_map) ==
  IF ly.grid # Shape(region_map) THEN ly
  ELSE [ly EXCEPT !.region_map = region_map, !.region_flag = TRUE]

set_region_parameters(ly, region, diffusion, friction) ==
  [ly EXCEPT !.region_parameters =
     [r \in DOMAIN @ \cup {region} |->
        IF r = region THEN [diff |-> diffusion, fric |-> friction] ELSE @[r]]]

\* layout.add_external_reaction: K, Kcat, Km are None when not given
add_external_reaction(ly, rxnName, metabolites, stoichiometry, K, Kcat, Km) ==
  [ly EXCEPT !.reactions = Append(@,
     [Name |-> rxnName, metabolites |-> metabolites, stoichiometry |-> stoichiometry,
      K |-> K, Kcat |-> Kcat, Km |-> Km]),
             !.ext_rxns_flag = TRUE]

PeriodicFunctions == {"step", "sin", "cos", "half_sin", "half_cos"}

\* layout.set_global_periodic_media: the row stored carries the label of the
\* first media row of that metabolite
set_global_periodic_media(ly, metabolite, function, amplitude, period, phase, offset) ==
  IF metabolite \notin MediaNames(ly) \/ function \notin PeriodicFunctions THEN ly
  ELSE LET i == CHOOSE i \in 1..Len(ly.media) :
                  /\ ly.media[i].metabolite = metabolite
                  /\ \A j \in 1..(i - 1) : ly.media[j].metabolite # metabolite
       IN  [ly EXCEPT !.periodic_media = Append(@,
              <<N(ly.media[i].label), W(function), N(amplitude), N(period),
                N(phase), N(offset)>>),
                      !.periodic_media_flag = TRUE]

\* ---------------------------------------------------------------- write_layout
\* A chunk gives the lines it wrote and how it ended: "ok" or the exception
\* that ended write_layout inside it.
Chunk(lines, status) == [lines |-> lines, status |-> status]

\* layout.__write_models_and_world_grid_chunk: one path per model id; with
\* no model the line still carries the path ".cmd"
WriteModelsChunk(ly) ==
  Chunk(<< <<W("model_file")>>
            \o (IF ly.models = <<>> THEN <<W(".cmd")>>
                ELSE Map(ly.models, LAMBDA mo : W(mo.id))),
           <<W("model_world")>>,
           <<W("grid_size")>> \o Map(ly.grid, N) >>, "ok")

\* self.media.<column>[i] looks the row up by its LABEL i
Labelled(ly, i) == {k \in 1..Len(ly.media) : ly.media[k].label = i}
LabelOk(ly, i) == Cardinality(Labelled(ly, i)) = 1
ByLabel(ly, i) == ly.media[CHOOSE k \in Labelled(ly, i) : TRUE]
\* the positions 0..len-1 whose label lookup does not give one row
BadLabels(ly) == {i \in 0..(Len(ly.media) - 1) : ~LabelOk(ly, i)}

\* layout.__write_media_chunk: a label carried by two rows gives a Series
\* and lyt.write raises TypeError; a label carried by none raises KeyError
WriteMediaChunk(ly) ==
  LET n == IF BadLabels(ly) = {} THEN Len(ly.media) ELSE Min(BadLabels(ly))
      rows == [i \in 1..n |->
                 <<W(ByLabel(ly, i - 1).metabolite), N(ByLabel(ly, i - 1).init_amount)>>]
  IN  IF BadLabels(ly) = {}
      THEN Chunk(<< <<W("world_media")>> >> \o rows \o <<Term>>, "ok")
      ELSE Chunk(<< <<W("world_media")>> >> \o rows,
                 IF Labelled(ly, Min(BadLabels(ly))) = {} THEN "KeyError"
                 ELSE "TypeError")

\* layout.__write_diffusion_chunk (reached only with good labels)
WriteDiffusionChunk(ly) ==
  IF ~ly.diffusion_flag THEN Chunk(<<>>, "ok")
  ELSE Chunk(<< <<W("diffusion_constants"), N(ly.global_diff)>> >>
             \o Flatten([i \in 1..Len(ly.media) |->
                  IF ByLabel(ly, i - 1).diff_c = NaN THEN <<>>
                  ELSE << <<N(i - 1), N(ByLabel(ly, i - 1).diff_c)>> >>])
             \o <<Term>>, "ok")

\* layout.__get_met_number: the 0-based position in all_exchanged_mets
HasMetNumber(ly, met) == met \in Range(ly.all_exchanged_mets)
get_met_number(ly, met) == IndexOf(ly.all_exchanged_mets, met) - 1

\* met_amounts_in_order for one location: a flat vector, or flag/value pairs
FlatVector(ly, vals) ==
  [j \in 1..Len(ly.all_exchanged_mets) |->
     IF ly.all_exchanged_mets[j] \in DOMAIN vals
     THEN N(vals[ly.all_exchanged_mets[j]]) ELSE N(0)]
PairVector(ly, vals) ==
  [j \in 1..(2 * Len(ly.all_exchanged_mets)) |->
     LET met == ly.all_exchanged_mets[(j + 1) \div 2] IN
     IF met \notin DOMAIN vals THEN N(0)
     ELSE IF j % 2 = 1 THEN N(1) ELSE N(vals[met])]

\* the rows of one local map; the first location holding a metabolite that
\* has no number raises IndexError and ends the chunk before its row
LocalRows(ly, d, Vec(_, _)) ==
  LET bad == {i \in 1..Len(d) : \E met \in DOMAIN d[i].vals : ~HasMetNumber(ly, met)}
      n == IF bad = {} THEN Len(d) ELSE Min(bad) - 1
  IN  Chunk([i \in 1..n |-> <<N(d[i].loc[1]), N(d[i].loc[2])>> \o Vec(ly, d[i].vals)],
            IF bad = {} THEN "ok" ELSE "IndexError")

\* a header line, the rows, and the terminator when the rows were all written
Section(header, rows) ==
  Chunk(<<header>> \o rows.lines \o (IF rows.status = "ok" THEN <<Term>> ELSE <<>>),
        rows.status)

\* layout.__write_local_media_chunk
WriteLocalMediaChunk(ly) ==
  IF ~ly.local_media_flag THEN Chunk(<<>>, "ok")
  ELSE Section(<<W("media")>>, LocalRows(ly, ly.local_media, FlatVector))

\* layout.__write_refresh_chunk
WriteRefreshChunk(ly) ==
  IF ~ly.refresh_flag THEN Chunk(<<>>, "ok")
  ELSE Section(<<W("media_refresh")>> \o Map(ly.media, LAMBDA r : N(r.g_refresh)),
               LocalRows(ly, ly.local_refresh, FlatVector))

\* layout.__write_static_chunk
WriteStaticChunk(ly) ==
  IF ~ly.static_flag THEN Chunk(<<>>, "ok")
  ELSE Section(<<W("static_media")>>
                 \o Flatten(Map(ly.media, LAMBDA r : <<N(r.g_static), N(r.g_static_val)>>)),
               LocalRows(ly, ly.local_static, PairVector))


\* a set of coordinate pairs as a list (ordered by x, then y)
RECURSIVE PairsInOrder(_)
PairsInOrder(S) ==
  IF S = {} THEN <<>>
  ELSE LET b == CHOOSE p \in S : \A q \in S :
                  p[1] < q[1] \/ (p[1] = q[1] /\ p[2] <= q[2])
       IN  <<b>> \o PairsInOrder(S \ {b})

\* layout.__write_barrier_chunk
WriteBarrierChunk(ly) ==
  IF ~ly.barrier_flag THEN Chunk(<<>>, "ok")
  ELSE Chunk(<< <<W("barrier")>> >>
             \o Map(PairsInOrder(ly.barriers), LAMBDA b : <<N(b[1]), N(b[2])>>)
             \o <<Term>>, "ok")

\* keys.sort() of the region numbers
RECURSIVE KeysInOrder(_)
KeysInOrder(S) ==
  IF S = {} THEN <<>> ELSE <<Min(S)>> \o KeysInOrder(S \ {Min(S)})

\* layout.__write_regions_chunk
WriteRegionsChunk(ly) ==
  IF ~ly.region_flag THEN Chunk(<<>>, "ok")
  ELSE LET keys == KeysInOrder(DOMAIN ly.region_parameters) IN
       Chunk(<< <<W("substrate_diffusivity")>> >>
             \o Map(keys, LAMBDA key : Map(ly.region_parameters[key].diff, N))
             \o << Term, <<W("substrate_friction")>> >>
             \o Map(keys, LAMBDA key : <<N(ly.region_parameters[key].fric)>>)
             \o << Term, <<W("substrate_layout")>> >>
             \o Map(ly.region_map, LAMBDA row : Map(row, N))
             \o <<Term>>, "ok")

\* layout.__write_periodic_media_chunk
WritePeriodicMediaChunk(ly) ==
  IF ~ly.periodic_media_flag THEN Chunk(<<>>, "ok")
  ELSE Chunk(<< <<W("periodic_media"), W("global")>> >> \o ly.periodic_media
             \o <<Term>>, "ok")

\* layout.__write_initial_pop_chunk (initial_pop_type is 'custom'), with the
\* two closing terminators
WriteInitialPopChunk(ly) ==
  Chunk(<< <<W("initial_pop")>> >> \o Map(ly.initial_pop, LAMBDA i : Map(i, N))
        \o <<Term, Term>>, "ok")

\* self.media.index[self.media['metabolite'] == name].tolist()[0] + 1
MetIndex(ly, name) ==
  ly.media[Min({k \in 1..Len(ly.media) : ly.media[k].metabolite = name})].label + 1

Reactants(rxn) == SelectSeq([k \in 1..Len(rxn.metabolites) |-> k],
                            LAMBDA k : rxn.stoichiometry[k] < 0)
Products(rxn) == SelectSeq([k \in 1..Len(rxn.metabolites) |-> k],
                           LAMBDA k : rxn.stoichiometry[k] > 0)

\* what building the lines of one external reaction raises, if anything
ExtRxnStatus(ly, rxn) ==
  IF \E k \in Range(Reactants(rxn)) \cup Range(Products(rxn)) :
       rxn.metabolites[k] \notin MediaNames(ly)
  THEN "IndexError"
  ELSE IF Reactants(rxn) # <<>> /\ rxn.K = None /\ rxn.Km = None THEN "KeyError"
  ELSE "ok"

ReactantLines(ly, i, rxn) ==
  [ind \in 1..Len(Reactants(rxn)) |->
     LET k == Reactants(rxn)[ind] IN
     <<N(i), N(MetIndex(ly, rxn.metabolites[k])), N(-rxn.stoichiometry[k])>>
     \o (IF ind = 1 THEN <<N(IF rxn.K # None THEN rxn.K ELSE rxn.Km)>> ELSE <<>>)]
ProductLines(ly, i, rxn) ==
  Map(Products(rxn), LAMBDA k :
        <<N(i), N(MetIndex(ly, rxn.metabolites[k])), N(rxn.stoichiometry[k])>>)
EnzymeLines(i, rxn) == IF rxn.Kcat # None THEN << <<N(i), N(rxn.Kcat)>> >> ELSE <<>>

\* layout.__write_ext_rxns_chunk: every line is built before the first is
\* written, so a reaction that raises leaves the chunk empty
WriteExtRxnsChunk(ly) ==
  LET n == Len(ly.reactions)
      bad == {i \in 1..n : ExtRxnStatus(ly, ly.reactions[i]) # "ok"} IN
  IF ~ly.ext_rxns_flag THEN Chunk(<<>>, "ok")
  ELSE IF bad # {} THEN Chunk(<<>>, ExtRxnStatus(ly, ly.reactions[Min(bad)]))
  ELSE Chunk(<< <<W("reactions")>>, <<W("reactants")>> >>
             \o Flatten([i \in 1..n |-> ReactantLines(ly, i, ly.reactions[i])])
             \o << <<W("enzymes")>> >>
             \o Flatten([i \in 1..n |-> EnzymeLines(i, ly.reactions[i])])
             \o << <<W("products")>> >>
             \o Flatten([i \in 1..n |-> ProductLines(ly, i, ly.reactions[i])])
             \o <<Term>>, "ok")

\* the chunks one after the other; the one that raises ends the file
RECURSIVE WriteChunks(_)
WriteChunks(chunks) ==
  IF chunks = <<>> THEN Chunk(<<>>, "ok")
  ELSE IF chunks[1].status # "ok" THEN chunks[1]
  ELSE LET rest == WriteChunks(Tail(chunks))
       IN  Chunk(chunks[1].lines \o rest.lines, rest.status)

\* layout.write_layout: the lines of .current_layout and how the call ended
write_layout(ly) ==
  WriteChunks(<< WriteModelsChunk(ly), WriteMediaChunk(ly), WriteDiffusionChunk(ly),
                 WriteLocalMediaChunk(ly), WriteRefreshChunk(ly), WriteStaticChunk(ly),
                 WriteBarrierChunk(ly), WriteRegionsChunk(ly),
                 WritePeriodicMediaChunk(ly), Chunk(<<Term>>, "ok"),
                 WriteInitialPopChunk(ly), WriteExtRxnsChunk(ly) >>)


\* ---------------------------------------------------------------- read_comets_layout
\* (word as written in a file, keyword) pairs in which the keyword occurs in
\* the upper-cased word: `K in filedata_string.upper()` and
\* re.split(K, filedata_string.upper()) match inside any such word.  The
\* test 'DIFFUSION' in filedata_string is made on the string as it is, so
\* diffusion_constants is no match for it.
UpperSubstrings ==
  { <<"media_refresh", "REFRESH">>, <<"static_media", "STATIC">>,
    <<"substrate_layout", "SUBSTRATE_LAYOUT">>,
    <<"substrate_diffusivity", "SUBSTRATE_DIFFUSIVITY">>,
    <<"substrate_friction", "SUBSTRATE_FRICTION">>, <<"media", "MEDIA">>,
    <<"refresh_e", "REFRESH">> }

ContainsUpper(tok, K) == tok.k = "w" /\ (tok.s = K \/ <<tok.s, K>> \in UpperSubstrings)
LineHasUpper(line, K) == \E i \in 1..Len(line) : ContainsUpper(line[i], K)
FileHasUpper(lines, K) == \E k \in 1..Len(lines) : LineHasUpper(lines[k], K)
LineOfUpper(lines, K) ==
  IF FileHasUpper(lines, K)
  THEN Min({k \in 0..(Len(lines) - 1) : LineHasUpper(lines[k + 1], K)})
  ELSE Len(lines) - 1

\* token.upper() == 'MEDIA'
UpperIsMedia(tok) == tok.k = "w" /\ tok.s \in {"media", "MEDIA"}
\* 'MEDIA' in set(filedata_string.upper().strip().split())
HasMediaToken(lines) ==
  \E k \in 1..Len(lines) : \E i \in 1..Len(lines[k]) : UpperIsMedia(lines[k][i])
\* the lines whose first token is MEDIA
MediaHeaders(lines) == {k \in 0..(Len(lines) - 1) : UpperIsMedia(lines[k + 1][1])}

AllNum(row) == \A i \in 1..Len(row) : IsNum(row[i])
Nums(row) == Map(row, LAMBDA tok : tok.n)

\* what one row of a per-location block does: float() of a word raises
\* ValueError; a row of another width CorruptLine; x >= grid[0] or
\* y >= grid[1] OutOfGrid
RowClass(ly, row, width) ==
  IF ~AllNum(row) THEN "ValueError"
  ELSE IF Len(row) # width THEN "CorruptLine"
  ELSE IF Len(ly.grid) = 0 THEN "IndexError"
  ELSE IF row[1].n >= ly.grid[1] THEN "OutOfGrid"
  ELSE IF Len(ly.grid) = 1 THEN "IndexError"
  ELSE IF row[2].n >= ly.grid[2] THEN "OutOfGrid"
  ELSE "ok"

\* a for loop over rows inside one try: the rows before the first row that
\* raises are taken (n of them), that row and the rows after it are not
Scan(rows, Cls(_)) ==
  LET bad == {i \in 1..Len(rows) : Cls(rows[i]) # "ok"} IN
  IF bad = {} THEN [n |-> Len(rows), outcome |-> "ok"]
  ELSE [n |-> Min(bad) - 1, outcome |-> Cls(rows[Min(bad)])]

\* the except clauses print and go on; anything else leaves the call
Caught == {"CorruptLine", "OutOfGrid", "UnallocatedMetabolite"}
Settle(st, outcome, section) ==
  IF outcome = "ok" THEN st
  ELSE IF outcome \in Caught THEN [st EXCEPT !.errors = @ \cup {<<outcome, section>>}]
  ELSE Raise(st, outcome)

\* lines 929-935: a grid line with one number prints CorruptLine and goes on
ReadGrid(st, lines) ==
  IF st.status # "ok" THEN st
  ELSE IF Len(lines) < 3 \/ L(lines, 2) = <<>> THEN Raise(st, "IndexError")
  ELSE IF ~AllNum(Tail(L(lines, 2))) THEN Raise(st, "ValueError")
  ELSE Settle([st EXCEPT !.self.grid = Nums(Tail(L(lines, 2)))],
              IF Len(L(lines, 2)) < 3 THEN "CorruptLine" ELSE "ok", "grid_size")

PopTypes == {"random", "random_rect", "filled", "filled_rect", "square"}

\* lines 949-1002: temp_init_pop_for_models (st.temp) has one list per path
\* on the first line, with [x, y, amount] for every nonzero amount; it is
\* not defined when the population is of one of the named types
ReadInitialPop(st, lines) ==
  LET lin == LineOf(lines, "initial_pop")
      g_initpop == Tail(L(lines, lin))
      nmodels == Len(L(lines, 0)) - 1
  IN
  IF st.status # "ok" THEN st
  ELSE IF ~HasEnd(lines, lin) THEN Raise(st, "StopIteration")
  ELSE IF g_initpop # <<>> /\ g_initpop[1].k = "w" /\ g_initpop[1].s \in PopTypes
  THEN IF ~AllNum(Tail(g_initpop)) THEN Raise(st, "ValueError")
       ELSE [st EXCEPT !.self.initial_pop_type = g_initpop[1].s,
                       !.self.initial_pop = Nums(Tail(g_initpop)),
                       !.custom = FALSE]
  ELSE LET rows == Slice(lines, lin + 1, NextEnd(lines, lin))
           sc == Scan(rows, LAMBDA row : RowClass(st.self, row, nmodels + 2))
           taken == SubSeq(rows, 1, sc.n)
       IN  Settle([st EXCEPT !.self.initial_pop_type = "custom",
                             !.temp = [j \in 1..nmodels |->
                                Map(SelectSeq(taken, LAMBDA row : row[j + 2].n # 0),
                                    LAMBDA row : <<row[1].n, row[2].n, row[j + 2].n>>)]],
                  sc.outcome, "initial_pop")

\* model(model_path): the Model files are those write_model_files wrote
KnownModel(tok) == tok.k = "w" /\ tok.s \in DOMAIN ExchOf

\* lines 1004-1013: each model gets its initial_pop and is added;
\* update_models raises IndexError for a model whose list is empty
RECURSIVE ReadModelsFrom(_, _, _)
ReadModelsFrom(st, paths, i) ==
  IF st.status # "ok" \/ i > Len(paths) THEN st
  ELSE IF ~KnownModel(paths[i]) THEN Raise(st, "FileNotFoundError")
  ELSE IF ~st.custom THEN Raise(st, "NameError")
  ELSE IF st.temp[i] = <<>>
  THEN Raise([st EXCEPT !.self.models =
                Append(@, LModel(paths[i].s, ExchOf[paths[i].s], TRUE, <<>>))],
             "IndexError")
  ELSE ReadModelsFrom(
         [st EXCEPT !.self = add_model(@, LModel(paths[i].s, ExchOf[paths[i].s],
                                                 TRUE, st.temp[i]))],
         paths, i + 1)

ReadModels(st, lines) == ReadModelsFrom(st, Tail(L(lines, 0)), 1)

\* lines 1016-1028: assigning a column of another length than the table
\* raises ValueError; an empty table takes the rows of the file
ReadWorldMedia(st, lines) ==
  LET lin_media == LineOf(lines, "world_media") + 1
      rows == Slice(lines, lin_media, NextEnd(lines, lin_media))
  IN
  IF st.status # "ok" THEN st
  ELSE IF ~HasEnd(lines, lin_media) THEN Raise(st, "StopIteration")
  ELSE IF \E i \in 1..Len(rows) : Len(rows[i]) < 2 THEN Raise(st, "IndexError")
  ELSE IF \E i \in 1..Len(rows) : ~IsNum(rows[i][2]) THEN Raise(st, "ValueError")
  ELSE IF st.self.media = <<>>
  THEN [st EXCEPT !.media_names = Map(rows, LAMBDA r : r[1]),
                  !.self.media = [i \in 1..Len(rows) |->
                     [label |-> i - 1, metabolite |-> rows[i][1].s,
                      init_amount |-> rows[i][2].n, diff_c |-> NaN,
                      g_static |-> NaN, g_static_val |-> NaN, g_refresh |-> NaN]]]
  ELSE IF Len(rows) # Len(st.self.media) THEN Raise(st, "ValueError")
  ELSE [st EXCEPT !.media_names = Map(rows, LAMBDA r : r[1]),
                  !.self.media = [i \in 1..Len(rows) |->
                     [@[i] EXCEPT !.metabolite = rows[i][1].s,
                                  !.init_amount = rows[i][2].n]]]


\* self.media.loc[label, col] = v
SetMediaAt(media, label, col, v) ==
  [i \in 1..Len(media) |->
     IF media[i].label = label THEN [media[i] EXCEPT ![col] = v] ELSE media[i]]

RECURSIVE SetDiffC(_, _)
SetDiffC(media, rows) ==
  IF rows = <<>> THEN media
  ELSE SetDiffC(SetMediaAt(media, rows[1][1].n, "diff_c", rows[1][2].n), Tail(rows))

\* lines 1031-1050: entered only when the file holds the upper-case word
ReadDiffusion(st, lines) ==
  LET lin_diff == LineOf(lines, "diffusion_constants")
      rows == Slice(lines, lin_diff + 1, NextEnd(lines, lin_diff))
      sc == Scan(rows, LAMBDA row :
                   IF ~AllNum(row) THEN "ValueError"
                   ELSE IF Len(row) < 2 THEN "IndexError"
                   ELSE IF row[1].n > Len(st.self.media) - 1
                        THEN "UnallocatedMetabolite"
                   ELSE "ok")
  IN
  IF st.status # "ok" THEN st
  ELSE IF ~FileHas(lines, "DIFFUSION") THEN [st EXCEPT !.self.diffusion_flag = FALSE]
  ELSE IF ~HasEnd(lines, lin_diff) THEN Raise(st, "StopIteration")
  ELSE IF Len(L(lines, lin_diff)) < 2 THEN Raise(st, "IndexError")
  ELSE IF ~IsNum(L(lines, lin_diff)[2]) THEN Raise(st, "ValueError")
  ELSE Settle([st EXCEPT !.self.diffusion_flag = TRUE,
                         !.self.global_diff = L(lines, lin_diff)[2].n,
                         !.self.media = SetDiffC(@, SubSeq(rows, 1, sc.n))],
              sc.outcome, "diffusion_constants")

\* the nonzero values of a flat row, by metabolite name
FlatPositions(row) == {j \in 1..(Len(row) - 2) : row[j + 2].n # 0}
FlatVals(ly, row) ==
  [met \in {ly.all_exchanged_mets[j] : j \in FlatPositions(row)} |->
     row[IndexOf(ly.all_exchanged_mets, met) + 2].n]
\* the values of a flag/value row whose flag is not zero
PairPositions(row) == {j \in 1..((Len(row) - 2) \div 2) : row[2 * j + 1].n # 0}
PairVals(ly, row) ==
  [met \in {ly.all_exchanged_mets[j] : j \in PairPositions(row)} |->
     row[2 * IndexOf(ly.all_exchanged_mets, met) + 2].n]

\* a row of a per-location block: all_exchanged_mets[j] raises IndexError
\* for a position past the end of the list
LocalRowClass(ly, row, width, Positions(_)) ==
  IF RowClass(ly, row, width) # "ok" THEN RowClass(ly, row, width)
  ELSE IF \E j \in Positions(row) : j > Len(ly.all_exchanged_mets) THEN "IndexError"
  ELSE "ok"

\* self.local_x[loc] = {} and then one entry per value kept, row after row
RowVals(ly, row, kind) == IF kind = "pair" THEN PairVals(ly, row) ELSE FlatVals(ly, row)
RECURSIVE PutRows(_, _, _, _)
PutRows(d, ly, rows, kind) ==
  IF rows = <<>> THEN d
  ELSE PutRows(DictPut(d, <<rows[1][1].n, rows[1][2].n>>, RowVals(ly, rows[1], kind)),
               ly, Tail(rows), kind)

\* lines 1052-1080, and the same again in lines 1082-1110
ReadLocalMedia(st, lines) ==
  LET lin_media == Min(MediaHeaders(lines)) + 1
      rows == Slice(lines, lin_media, NextEnd(lines, lin_media))
      sc == Scan(rows, LAMBDA row :
                   LocalRowClass(st.self, row, Len(st.self.media) + 2, FlatPositions))
  IN
  IF st.status # "ok" THEN st
  ELSE IF ~HasMediaToken(lines) THEN [st EXCEPT !.self.local_media_flag = FALSE]
  ELSE IF MediaHeaders(lines) = {} THEN Raise(st, "IndexError")
  ELSE IF ~HasEnd(lines, lin_media) THEN Raise(st, "StopIteration")
  ELSE Settle([st EXCEPT !.self.local_media_flag = TRUE,
                         !.self.local_media =
                            PutRows(@, st.self, SubSeq(rows, 1, sc.n), "flat")],
              sc.outcome, "media")

\* lines 1114-1157
ReadRefresh(st, lines) ==
  LET lin_refr == LineOfUpper(lines, "REFRESH")
      g_refresh == Tail(L(lines, lin_refr))
      rows == Slice(lines, lin_refr + 1, NextEnd(lines, lin_refr))
      sc == Scan(rows, LAMBDA row :
                   LocalRowClass(st.self, row, Len(st.self.media) + 2, FlatPositions))
      s1 == IF Len(g_refresh) # Len(st.media_names)
            THEN Settle(st, "CorruptLine", "media_refresh global")
            ELSE [st EXCEPT !.self.media = [i \in 1..Len(@) |->
                                [@[i] EXCEPT !.g_refresh = g_refresh[i].n]]]
  IN
  IF st.status # "ok" THEN st
  ELSE IF ~FileHasUpper(lines, "REFRESH") THEN [st EXCEPT !.self.refresh_flag = FALSE]
  ELSE IF ~HasEnd(lines, lin_refr) THEN Raise(st, "StopIteration")
  ELSE IF ~AllNum(g_refresh) THEN Raise(st, "ValueError")
  ELSE Settle([s1 EXCEPT !.self.refresh_flag = TRUE,
                         !.self.local_refresh =
                            PutRows(@, st.self, SubSeq(rows, 1, sc.n), "flat")],
              sc.outcome, "media_refresh")

\* lines 1206-1249
ReadStatic(st, lines) ==
  LET lin_static == LineOfUpper(lines, "STATIC")
      g_static == Tail(L(lines, lin_static))
      rows == Slice(lines, lin_static + 1, NextEnd(lines, lin_static))
      sc == Scan(rows, LAMBDA row :
                   LocalRowClass(st.self, row, 2 * Len(st.self.media) + 2, PairPositions))
      s1 == IF Len(g_static) # 2 * Len(st.self.media)
            THEN Settle(st, "CorruptLine", "static_media global")
            ELSE [st EXCEPT !.self.media = [i \in 1..Len(@) |->
                                [@[i] EXCEPT !.g_static = g_static[2 * i - 1].n,
                                             !.g_static_val = g_static[2 * i].n]]]
  IN
  IF st.status # "ok" THEN st
  ELSE IF ~FileHasUpper(lines, "STATIC") THEN [st EXCEPT !.self.static_flag = FALSE]
  ELSE IF ~HasEnd(lines, lin_static) THEN Raise(st, "StopIteration")
  ELSE IF ~AllNum(g_static) THEN Raise(st, "ValueError")
  ELSE Settle([s1 EXCEPT !.self.static_flag = TRUE,
                         !.self.local_static =
                            PutRows(@, st.self, SubSeq(rows, 1, sc.n), "pair")],
              sc.outcome, "static_media")


\* np.array(rows, dtype = int) of rows of unequal length raises ValueError
Ragged(rows) == \E i \in 1..Len(rows) : Len(rows[i]) # Len(rows[1])

\* lines 1160-1177 without the comparison of the shape with the grid
ReadRegionMapAnyShape(st, lines) ==
  LET lin_substrate == LineOfUpper(lines, "SUBSTRATE_LAYOUT")
      rows == Slice(lines, lin_substrate + 1, NextEnd(lines, lin_substrate))
  IN
  IF st.status # "ok" THEN st
  ELSE IF ~FileHasUpper(lines, "SUBSTRATE_LAYOUT")
  THEN [st EXCEPT !.self.region_flag = FALSE]
  ELSE IF ~HasEnd(lines, lin_substrate) THEN Raise(st, "StopIteration")
  ELSE IF (\E i \in 1..Len(rows) : ~AllNum(rows[i])) \/ Ragged(rows)
  THEN Raise(st, "ValueError")
  ELSE [st EXCEPT !.self.region_flag = TRUE, !.self.region_map = Map(rows, Nums)]

\* lines 1160-1177
ReadRegionMap(st, lines) ==
  LET lin_substrate == LineOfUpper(lines, "SUBSTRATE_LAYOUT")
      rows == Slice(lines, lin_substrate + 1, NextEnd(lines, lin_substrate))
      region_map_data == Map(rows, Nums)
  IN
  IF st.status # "ok" THEN st
  ELSE IF ~FileHasUpper(lines, "SUBSTRATE_LAYOUT")
  THEN [st EXCEPT !.self.region_flag = FALSE]
  ELSE IF ~HasEnd(lines, lin_substrate) THEN Raise(st, "StopIteration")
  ELSE IF (\E i \in 1..Len(rows) : ~AllNum(rows[i])) \/ Ragged(rows)
  THEN Raise([st EXCEPT !.self.region_flag = FALSE], "ValueError")
  ELSE IF Shape(region_map_data) # st.self.grid
  THEN Settle([st EXCEPT !.self.region_flag = FALSE], "CorruptLine", "substrate_layout")
  ELSE [st EXCEPT !.self.region_flag = TRUE, !.self.region_map = region_map_data]

\* lines 1179-1194: the row that raises CorruptLine is already stored, with
\* no friction
ReadRegionDiffusivity(st, lines) ==
  LET lin_substrate == LineOfUpper(lines, "SUBSTRATE_DIFFUSIVITY")
      rows == Slice(lines, lin_substrate + 1, NextEnd(lines, lin_substrate))
      sc == Scan(rows, LAMBDA row :
                   IF ~AllNum(row) THEN "ValueError"
                   ELSE IF Len(row) # Len(st.self.media) THEN "CorruptLine"
                   ELSE "ok")
      n == IF sc.outcome = "CorruptLine" THEN sc.n + 1 ELSE sc.n
  IN
  IF st.status # "ok" \/ ~FileHasUpper(lines, "SUBSTRATE_DIFFUSIVITY") THEN st
  ELSE IF ~HasEnd(lines, lin_substrate) THEN Raise(st, "StopIteration")
  ELSE Settle([st EXCEPT !.self.region_parameters =
                 [region \in 1..n |-> [diff |-> Nums(rows[region]), fric |-> None]]],
              sc.outcome, "substrate_diffusivity")

\* lines 1195-1202: a friction row of a region that has no entry raises
\* KeyError
ReadRegionFriction(st, lines) ==
  LET lin_substrate == LineOfUpper(lines, "SUBSTRATE_FRICTION")
      rows == Slice(lines, lin_substrate + 1, NextEnd(lines, lin_substrate))
      sc == Scan([i \in 1..Len(rows) |-> <<i, rows[i]>>], LAMBDA r :
                   IF r[1] \notin DOMAIN st.self.region_parameters THEN "KeyError"
                   ELSE IF ~IsNum(r[2][1]) THEN "ValueError"
                   ELSE "ok")
  IN
  IF st.status # "ok" \/ ~FileHasUpper(lines, "SUBSTRATE_FRICTION") THEN st
  ELSE IF ~HasEnd(lines, lin_substrate) THEN Raise(st, "StopIteration")
  ELSE Settle([st EXCEPT !.self.region_parameters =
                 [region \in DOMAIN @ |->
                    IF region <= sc.n THEN [@[region] EXCEPT !.fric = rows[region][1].n]
                    ELSE @[region]]],
              sc.outcome, "substrate_friction")

\* layout.read_comets_layout on a freshly constructed Layout (layout(path)):
\* [self |-> the Layout, status |-> "ok" or the exception raised,
\*  errors |-> the errors caught and printed, with their section]
read_comets_layout(lines) ==
  LET s0 == [self |-> EmptyLayout, status |-> "ok", errors |-> {},
             temp |-> <<>>, custom |-> TRUE, media_names |-> <<>>]
      s1 == ReadWorldMedia(ReadModels(ReadInitialPop(ReadGrid(s0, lines), lines),
                                      lines), lines)
      s2 == ReadLocalMedia(ReadLocalMedia(ReadDiffusion(s1, lines), lines), lines)
      s3 == ReadRegionFriction(ReadRegionDiffusivity(ReadRegionMap(
              ReadRefresh(s2, lines), lines), lines), lines)
      s4 == ReadStatic(s3, lines)
  IN  [self |-> s4.self, status |-> s4.status, errors |-> s4.errors]


\* ---------------------------------------------------------------- the Layout workflow
\* The bound on the number of models of a Layout.
MaxModels == 2

\* the Models handed to a Layout: network a with the initial_pop of
\* model.__init__ ([[0, 0, 0.0]]) or with a bare row, network b with two rows
ModelA0 == LModel("a", ExchOf["a"], TRUE, << <<0, 0, 0>> >>)
ModelA1 == LModel("a", ExchOf["a"], FALSE, << <<0, 0, 5>> >>)
ModelB1 == LModel("b", ExchOf["b"], TRUE, << <<1, 1, 5>>, <<0, 0, 5>> >>)
ModelB2 == LModel("b", ExchOf["b"], TRUE, << <<0, 0, 5>>, <<1, 1, 5>> >>)

\* layout(input_obj) for a list of models, layout() for none
layout(models) ==
  IF models = <<>> THEN EmptyLayout ELSE update_models([EmptyLayout EXCEPT !.models = models])

InitModelLists == { <<>>, <<ModelA0>>, <<ModelA1>>, <<ModelA1, ModelB2>> }

Locs == {<<0, 0>>, <<1, 1>>}
NoLFile == [lines |-> <<>>, status |-> "none"]
NoLRead == [self |-> EmptyLayout, status |-> "none", errors |-> {}]

LStep(ly) ==
  /\ lpc = "build" /\ lops < MaxLayoutOps
  /\ lyt' = ly /\ lops' = lops + 1
  /\ UNCHANGED <<lfile, lres, lpc, mvars>>

\* layout.grid = [2, 2], before anything is placed
LSetGrid ==
  /\ lpc = "build" /\ lops = 0 /\ lyt.grid = <<1, 1>>
  /\ lyt' = [lyt EXCEPT !.grid = <<2, 2>>]
  /\ UNCHANGED <<lfile, lres, lpc, lops, mvars>>

LAddModel ==
  /\ lpc = "build" /\ Len(lyt.models) < MaxModels
  /\ \E mo \in {ModelA1, ModelB1} :
       /\ mo.id \notin {lyt.models[i].id : i \in 1..Len(lyt.models)}
       /\ lyt' = add_model(lyt, mo)
  /\ UNCHANGED <<lfile, lres, lpc, lops, mvars>>

LSetMetabolite ==
  \E met \in {"glc_e", "nh4_e"} : LStep(set_specific_metabolite(lyt, met, 5))
LSetMetaboliteAt ==
  \E met \in {"o2_e", "nh4_e"}, loc \in Locs, amount \in {0, 5} :
    LStep(set_specific_metabolite_at_location(lyt, met, loc, amount))
LSetRefresh ==
  \E met \in {"o2_e", "nh4_e"} : LStep(set_specific_refresh(lyt, met, 3))
LSetRefreshAt ==
  \E loc \in Locs, amount \in {0, 3} :
    LStep(set_specific_refresh_at_location(lyt, "o2_e", loc, amount))
LSetStatic ==
  \E met \in {"o2_e", "nh4_e"} : LStep(set_specific_static(lyt, met, 4))
LSetStaticAt ==
  \E loc \in Locs, amount \in {0, 4} :
    LStep(set_specific_static_at_location(lyt, "o2_e", loc, amount))
LAddBarriers ==
  \E barriers \in { << <<0, 0>> >>, << <<1, 1>>, <<2, 2>> >> } :
    LStep(add_barriers(lyt, barriers))
LSetRegionMap ==
  \E region_map \in { << <<1>> >>, << <<1, 2>>, <<2, 1>> >> } :
    LStep(set_region_map(lyt, region_map))
LSetRegionParameters ==
  \E region \in {1, 2} : LStep(set_region_parameters(lyt, region, <<1, 1>>, 1))
LAddExternalReaction ==
  \/ LStep(add_external_reaction(lyt, "rxn1", <<"o2_e", "glc_e">>, <<-1, 1>>,
                                 2, None, None))
  \/ LStep(add_external_reaction(lyt, "rxn2", <<"o2_e", "nh4_e">>, <<-1, 1>>,
                                 None, 3, 4))
  \/ LStep(add_external_reaction(lyt, "rxn3", <<"o2_e", "glc_e">>, <<-1, 1>>,
                                 None, None, None))
LSetPeriodicMedia ==
  \E a \in { <<"o2_e", "step">>, <<"nh4_e", "sin">>, <<"o2_e", "saw">> } :
    LStep(set_global_periodic_media(lyt, a[1], a[2], 1, 2, 3, 4))

LWrite ==
  /\ lpc = "build"
  /\ lfile' = write_layout(lyt)
  /\ lpc' = "written"
  /\ UNCHANGED <<lyt, lres, lops, mvars>>

\* layout(path) of the file of a write_layout call that returned
LRead ==
  /\ lpc = "written" /\ lfile.status = "ok"
  /\ lres' = read_comets_layout(lfile.lines)
  /\ lpc' = "read"
  /\ UNCHANGED <<lyt, lfile, lops, mvars>>

ModelIdle == m = 0 /\ mfile = 0 /\ mres = 0 /\ mpc = "idle" /\ mops = 0

InitLayout ==
  /\ \E models \in InitModelLists : lyt = layout(models)
  /\ lfile = NoLFile /\ lres = NoLRead /\ lpc = "build" /\ lops = 0
  /\ ModelIdle

NextLayout ==
  \/ LSetGrid \/ LAddModel
  \/ LSetMetabolite \/ LSetMetaboliteAt \/ LSetRefresh \/ LSetRefreshAt
  \/ LSetStatic \/ LSetStaticAt \/ LAddBarriers \/ LSetRegionMap
  \/ LSetRegionParameters \/ LAddExternalReaction \/ LSetPeriodicMedia
  \/ LWrite \/ LRead

SpecLayout == InitLayout /\ [][NextLayout]_vars


\* ---------------------------------------------------------------- claims on the layout codec
\* a Layout with its three local maps as functions of the location, for ==
Canon(ly) ==
  [ly EXCEPT !.local_media = DictAsFn(@), !.local_refresh = DictAsFn(@),
             !.local_static = DictAsFn(@)]

InGrid(ly, loc) ==
  loc[1] >= 0 /\ loc[2] >= 0 /\ loc[1] < ly.grid[1] /\ loc[2] < ly.grid[2]

\* a Layout built the way the documentation asks for: at least one model,
\* every model with a nonzero custom population inside the grid, every
\* override and barrier inside the grid
ValidLayout(ly) ==
  /\ ly.models # <<>>
  /\ \A i \in 1..Len(ly.initial_pop) :
       /\ InGrid(ly, ly.initial_pop[i])
       /\ \E j \in 3..Len(ly.initial_pop[i]) : ly.initial_pop[i][j] # 0
  /\ \A loc \in DictKeys(ly.local_media) \cup DictKeys(ly.local_refresh)
                \cup DictKeys(ly.local_static) \cup ly.barriers : InGrid(ly, loc)

(* C2: for a validly constructed Layout, write_layout ends normally and     *)
(* reading its file with read_comets_layout ends normally with a Layout     *)
(* equal to the written one field by field.                                 *)
C2_LayoutRoundTrip ==
  (lpc # "build" /\ ValidLayout(lyt)) =>
    /\ lfile.status = "ok"
    /\ lpc = "read" => lres.status = "ok" /\ Canon(lres.self) = Canon(lyt)

\* the rows of the block whose header line starts with the word h
BlockHeaders(lines, h) ==
  {k \in 0..(Len(lines) - 1) : lines[k + 1] # <<>> /\ lines[k + 1][1] = W(h)}
BlockRows(lines, h) ==
  IF BlockHeaders(lines, h) = {} THEN <<>>
  ELSE Slice(lines, Min(BlockHeaders(lines, h)) + 1,
             NextEnd(lines, Min(BlockHeaders(lines, h))))

RowLoc(row) == <<row[1].n, row[2].n>>
RowValues(row) == [j \in 1..(Len(row) - 2) |-> row[j + 2].n]
AllZero(row) == \A j \in 1..(Len(row) - 2) : row[j + 2].n = 0

\* the per-location blocks of a layout file and the map each is read into
LocalBlocks == {"media", "media_refresh", "static_media"}
LocalMapOf(ly, h) ==
  IF h = "media" THEN ly.local_media
  ELSE IF h = "media_refresh" THEN ly.local_refresh ELSE ly.local_static

(* C6: when a local media, refresh, static or initial-population row of the *)
(* file read lies outside the grid, OutOfGrid is signalled for its block    *)
(* and the row gives no entry, while every row of the block inside the grid *)
(* (before or after it) is present in the Layout read.                      *)
C6_GridBoundOnParse ==
  (lpc = "read" /\ lres.status = "ok") =>
    /\ \A h \in LocalBlocks : \A i \in 1..Len(BlockRows(lfile.lines, h)) :
         LET row == BlockRows(lfile.lines, h)[i] IN
         IF InGrid(lres.self, RowLoc(row))
         THEN RowLoc(row) \in DictKeys(LocalMapOf(lres.self, h))
         ELSE /\ <<"OutOfGrid", h>> \in lres.errors
              /\ RowLoc(row) \notin DictKeys(LocalMapOf(lres.self, h))
    /\ \A i \in 1..Len(BlockRows(lfile.lines, "initial_pop")) :
         LET row == BlockRows(lfile.lines, "initial_pop")[i] IN
         IF InGrid(lres.self, RowLoc(row))
         THEN AllZero(row) \/ Nums(row) \in Range(lres.self.initial_pop)
         ELSE /\ <<"OutOfGrid", "initial_pop">> \in lres.errors
              /\ \A k \in 1..Len(lres.self.initial_pop) :
                   <<lres.self.initial_pop[k][1], lres.self.initial_pop[k][2]>>
                     # RowLoc(row)

(* C7: a media, media_refresh or static_media row of the file read whose    *)
(* values are all zero leaves no key for its location in the map of its     *)
(* block.                                                                   *)
C7_SparseZeroOnParse ==
  (lpc = "read" /\ lres.status = "ok") =>
    \A h \in LocalBlocks : \A i \in 1..Len(BlockRows(lfile.lines, h)) :
      LET row == BlockRows(lfile.lines, h)[i] IN
      AllZero(row) => RowLoc(row) \notin DictKeys(LocalMapOf(lres.self, h))

\* seq lists the names of S once each, in alphabetical order
IsSortedUnion(seq, S) ==
  /\ Range(seq) = S /\ Len(seq) = Cardinality(S)
  /\ \A i \in 1..Len(seq) : \A j \in (i + 1)..Len(seq) :
       MetRank[seq[i]] < MetRank[seq[j]]

\* row is the dense row of entry e: x y, then per metabolite of order the
\* value stored (width 1) or the flag and the value stored (width 2)
IsDenseRow(row, e, order, width) ==
  /\ AllNum(row) /\ Len(row) = 2 + width * Len(order)
  /\ RowLoc(row) = e.loc
  /\ DOMAIN e.vals \subseteq Range(order)
  /\ \A j \in 1..Len(order) :
       LET v == IF order[j] \in DOMAIN e.vals THEN e.vals[order[j]] ELSE 0
           f == IF order[j] \in DOMAIN e.vals THEN 1 ELSE 0
       IN  IF width = 1 THEN row[j + 2].n = v
           ELSE row[2 * j + 1].n = f /\ row[2 * j + 2].n = v

(* C9: the file write_layout produces has, for each of local_media,         *)
(* local_refresh and local_static, exactly one row per key of the map and   *)
(* no other row; the row is x y followed by one value (media, refresh) or   *)
(* one flag/value pair (static) per exchanged metabolite, in the sorted     *)
(* union of the models' exchange metabolite names, 0 where nothing is set.  *)
C9_DenseRowExpansion ==
  lpc # "build" =>
    /\ IsSortedUnion(lyt.all_exchanged_mets,
                     UNION {Range(lyt.models[i].exch) : i \in 1..Len(lyt.models)})
    /\ \A h \in LocalBlocks :
         LET rows == BlockRows(lfile.lines, h)
             map == LocalMapOf(lyt, h)
         IN  /\ Len(rows) = Len(map)
             /\ \A i \in 1..Len(map) : \E k \in 1..Len(rows) :
                  IsDenseRow(rows[k], map[i], lyt.all_exchanged_mets,
                             IF h = "static_media" THEN 2 ELSE 1)

(* C10: for a Layout with local media overrides, also one whose media table *)
(* holds a metabolite no model exchanges, write_layout and then             *)
(* read_comets_layout end normally and the local_media read has the same    *)
(* keys and for each key the same metabolite to value mapping.              *)
C10_LocalMediaReparse ==
  (lpc # "build" /\ lyt.local_media # <<>>) =>
    /\ lfile.status = "ok"
    /\ lpc = "read" =>
         /\ lres.status = "ok"
         /\ DictAsFn(lres.self.local_media) = DictAsFn(lyt.local_media)


(***************************************************************************)
(* Layout files that write_layout did not produce: the file of a layout    *)
(* with one line or one block replaced, then read by layout(path).         *)
(***************************************************************************)

\* the file with the numbers of the grid_size line replaced
WithGridLine(lines, dims) ==
  [lines EXCEPT ![LineOf(lines, "grid_size") + 1] = <<W("grid_size")>> \o Map(dims, N)]

\* the file with the rows of the substrate_layout block replaced
WithSubstrateLayout(lines, map) ==
  LET lin == LineOf(lines, "substrate_layout")
      end == NextEnd(lines, lin)
  IN  SubSeq(lines, 1, lin + 1)
        \o [i \in 1..Len(map) |-> Map(map[i], N)]
        \o SubSeq(lines, end + 1, Len(lines))

\* the file with the rows of the media block replaced
WithMediaBlock(lines, rows) ==
  LET lin == Min(BlockHeaders(lines, "media"))
      end == NextEnd(lines, lin)
  IN  SubSeq(lines, 1, lin + 1)
        \o [i \in 1..Len(rows) |-> Map(rows[i], N)]
        \o SubSeq(lines, end + 1, Len(lines))

\* the file with the rows of the world_media block replaced by those names
WithWorldMedia(lines, names) ==
  LET lin == LineOf(lines, "world_media")
      end == NextEnd(lines, lin)
  IN  SubSeq(lines, 1, lin + 1)
        \o [i \in 1..Len(names) |-> <<W(names[i]), N(0)>>]
        \o SubSeq(lines, end + 1, Len(lines))

\* the file with the model paths of its first line kept or removed
WithModelFiles(lines, keep) ==
  IF keep THEN lines ELSE [lines EXCEPT ![1] = <<W("model_file")>>]

\* a layout of one model with a medium, a region map and region parameters
RegionLayout(grid, map) ==
  set_specific_metabolite_at_location(
    set_region_parameters(
      set_region_map([layout(<<ModelA1>>) EXCEPT !.grid = grid], map),
      1, <<1, 1>>, 1),
    "o2_e", <<0, 0>>, 5)

BaseLayouts ==
  {RegionLayout(<<1, 1>>, <<<<1>>>>), RegionLayout(<<2, 2>>, <<<<1, 2>>, <<2, 1>>>>)}

GridLines == {<<>>, <<1>>, <<1, 1>>, <<2, 2>>, <<3, 3>>}

RegionBlocks ==
  {<<>>, <<<<1>>>>, <<<<1, 1>>>>, <<<<1, 2>>, <<2, 1>>>>, <<<<1, 1>>, <<1>>>>}

\* media blocks for two metabolites: rows of width four are well formed
MediaBlocks ==
  {<<<<0, 0, 0, 5>>>>, <<<<0, 0, 5>>>>, <<<<0, 0, 0, 5>>, <<0, 0, 5>>>>}

\* world_media blocks: the names written, one name replaced (by a name no
\* model exchanges, by a name that contains a keyword), one row left out
WorldMediaBlocks ==
  {<<"glc_e", "o2_e">>, <<"glc_e", "nh4_e">>, <<"glc_e", "refresh_e">>, <<"glc_e">>}

InitLayoutFile ==
  /\ \E ly \in BaseLayouts, dims \in GridLines, map \in RegionBlocks,
        rows \in MediaBlocks, names \in WorldMediaBlocks, keep \in BOOLEAN :
       /\ lyt = ly
       /\ lfile = [lines |-> WithModelFiles(WithWorldMedia(WithMediaBlock(
                               WithSubstrateLayout(
                                 WithGridLine(write_layout(ly).lines, dims), map),
                               rows), names), keep),
                   status |-> "ok"]
  /\ lres = NoLRead /\ lpc = "written" /\ lops = 0
  /\ ModelIdle

NextLayoutFile == LRead

SpecLayoutFile == InitLayoutFile /\ [][NextLayoutFile]_vars

\* the numbers on the grid_size line and the rows of the substrate_layout block
GridLineOf(lines) == Nums(Tail(lines[LineOf(lines, "grid_size") + 1]))
RegionBlockOf(lines) ==
  Map(Slice(lines, LineOf(lines, "substrate_layout") + 1,
            NextEnd(lines, LineOf(lines, "substrate_layout"))), Nums)

(* C11: when layout(path) returns for a file whose substrate_layout block is
   a rectangle of another shape than the declared two-dimensional grid, it
   has reported CorruptLine for that block, the region flag is false and
   region_map is unset (None). *)
C11_RegionShapeOnParse ==
  (/\ lpc = "read" /\ lres.status = "ok"
   /\ Len(GridLineOf(lfile.lines)) = 2
   /\ ~Ragged(RegionBlockOf(lfile.lines))
   /\ Shape(RegionBlockOf(lfile.lines)) # GridLineOf(lfile.lines))
  => /\ <<"CorruptLine", "substrate_layout">> \in lres.errors
     /\ ~lres.self.region_flag
     /\ lres.self.region_map = EmptyLayout.region_map

\* a 2x2 region map read under grid_size 3 3
C11_Witness ==
  /\ lpc = "read" /\ lres.status = "ok"
  /\ GridLineOf(lfile.lines) = <<3, 3>>
  /\ RegionBlockOf(lfile.lines) = <<<<1, 2>>, <<2, 1>>>>
  /\ <<"CorruptLine", "substrate_layout">> \in lres.errors


(***************************************************************************)
(* Model files with one required section damaged: the header line removed, *)
(* or the file cut before the terminator of the section.                   *)
(***************************************************************************)

\* the sections read_comets_model looks up unconditionally (lines 402-457)
RequiredSections ==
  {"SMATRIX", "REACTION_NAMES", "BOUNDS", "METABOLITE_NAMES", "EXCHANGE_REACTIONS"}

\* the file without the header line of section K
WithoutHeader(lines, K) ==
  SubSeq(lines, 1, LineOf(lines, K)) \o SubSeq(lines, LineOf(lines, K) + 2, Len(lines))

\* the file cut before the terminator of section K: no '//' follows its header
CutBeforeEnd(lines, K) == SubSeq(lines, 1, NextEnd(lines, LineOf(lines, K)))

Damaged(lines, K, kind) ==
  IF kind = "missing" THEN WithoutHeader(lines, K) ELSE CutBeforeEnd(lines, K)

InitModelDamaged ==
  /\ \E net \in Nets, b \in DefaultPairs, solver \in Solvers,
        K \in RequiredSections, kind \in {"missing", "unterminated"} :
       /\ m = load_cobra_model(net, b, solver)
       /\ mfile = [lines |-> Damaged(write_comets_model(m).lines, K, kind),
                   status |-> "ok"]
  /\ mres = NoRead /\ mpc = "written" /\ mops = 0
  /\ LayoutIdle

NextModelDamaged == MRead

SpecModelDamaged == InitModelDamaged /\ [][NextModelDamaged]_vars

(* C12: reading a model file that lacks the header of a required section,
   or in which no terminator follows that header, fails, and the outcome
   for the missing header is another one than the outcome for the same
   section left unterminated. *)
C12_SectionLookupFailures ==
  mpc = "read" =>
    \A K \in RequiredSections :
      LET written == write_comets_model(m).lines IN
      /\ mfile.lines \in {WithoutHeader(written, K), CutBeforeEnd(written, K)}
           => mres.status # "ok"
      /\ mfile.lines = WithoutHeader(written, K)
           => mres.status # read_comets_model(m.id, CutBeforeEnd(written, K)).status


\* the presence flag that goes with each per-location block
LocalFlagOf(ly, h) ==
  IF h = "media" THEN ly.local_media_flag
  ELSE IF h = "media_refresh" THEN ly.refresh_flag ELSE ly.static_flag

(* C13: when layout(path) returns for a file whose media, media_refresh or
   static_media block has a row of the wrong number of entries, CorruptLine
   has been reported for the block, and the map and the presence flag of the
   block are those of a freshly constructed empty layout, however many
   well-formed rows came before the malformed one. *)
C13_MalformedOptionalSection ==
  (lpc = "read" /\ lres.status = "ok") =>
    \A h \in LocalBlocks :
      <<"CorruptLine", h>> \in lres.errors
        => /\ LocalMapOf(lres.self, h) = LocalMapOf(EmptyLayout, h)
           /\ LocalFlagOf(lres.self, h) = LocalFlagOf(EmptyLayout, h)


(* C14: when the grid_size line of the file declares fewer than two
   dimensions, layout(path) aborts: no Layout is returned and no section
   after the grid line is read (nothing but the grid line is reported). *)
C14_MalformedRequiredSection ==
  (lpc = "read" /\ Len(GridLineOf(lfile.lines)) < 2) =>
    /\ lres.status # "ok"
    /\ lres.errors \subseteq {<<"CorruptLine", "grid_size">>}


(* C15: the file of a write_layout call that returned ends with two
   terminator lines, whether or not the layout has external reactions. *)
C15_LayoutFileEnding ==
  (lpc # "build" /\ lfile.status = "ok") =>
    /\ Len(lfile.lines) >= 2
    /\ lfile.lines[Len(lfile.lines)] = Term
    /\ lfile.lines[Len(lfile.lines) - 1] = Term


\* the 1-based position of the first media row of that metabolite
RowPosition(ly, name) ==
  Min({k \in 1..Len(ly.media) : ly.media[k].metabolite = name})

\* the lines the reactions block is to have for the i-th reaction
ExpectedReactants(ly, i, rxn) ==
  [ind \in 1..Len(Reactants(rxn)) |->
     LET k == Reactants(rxn)[ind] IN
     <<N(i), N(RowPosition(ly, rxn.metabolites[k])), N(-rxn.stoichiometry[k])>>
     \o (IF ind = 1 THEN <<N(IF rxn.K # None THEN rxn.K ELSE rxn.Km)>> ELSE <<>>)]
ExpectedProducts(ly, i, rxn) ==
  [ind \in 1..Len(Products(rxn)) |->
     LET k == Products(rxn)[ind] IN
     <<N(i), N(RowPosition(ly, rxn.metabolites[k])), N(rxn.stoichiometry[k])>>]
ExpectedEnzymes(i, rxn) ==
  IF rxn.Kcat # None THEN << <<N(i), N(rxn.Kcat)>> >> ELSE <<>>

\* the lines between two sub-headers of the reactions block of a file
ReactionsPart(lines, from, to) ==
  LET a == Min(BlockHeaders(lines, from))
      b == IF to = "//" THEN NextEnd(lines, a) ELSE Min(BlockHeaders(lines, to))
  IN  Slice(lines, a + 1, b)

\* every reaction has K, or Kcat and Km, and names metabolites of the media table
ReactionsWellGiven(ly) ==
  /\ ly.ext_rxns_flag
  /\ \A i \in 1..Len(ly.reactions) :
       LET rxn == ly.reactions[i] IN
       /\ rxn.K # None \/ (rxn.Kcat # None /\ rxn.Km # None)
       /\ Range(rxn.metabolites) \subseteq MediaNames(ly)

(* C16: for a layout with external reactions, each given with K or with
   Kcat and Km and naming metabolites of the media table, write_layout
   returns and the file has a reactions block where the i-th reaction has
   one reactants line per metabolite of negative stoichiometry and one
   products line per metabolite of positive stoichiometry, each with the
   1-based row position of the metabolite in the media table and the
   absolute stoichiometry, the constant (K, else Km) on the first reactant
   line only, and one enzymes line with Kcat exactly when Kcat was given. *)
C16_ExternalReactions ==
  (lpc # "build" /\ ReactionsWellGiven(lyt)) =>
    /\ lfile.status = "ok"
    /\ BlockHeaders(lfile.lines, "reactions") # {}
    /\ ReactionsPart(lfile.lines, "reactants", "enzymes")
         = Flatten([i \in 1..Len(lyt.reactions) |-> ExpectedReactants(lyt, i, lyt.reactions[i])])
    /\ ReactionsPart(lfile.lines, "enzymes", "products")
         = Flatten([i \in 1..Len(lyt.reactions) |-> ExpectedEnzymes(i, lyt.reactions[i])])
    /\ ReactionsPart(lfile.lines, "products", "//")
         = Flatten([i \in 1..Len(lyt.reactions) |-> ExpectedProducts(lyt, i, lyt.reactions[i])])


(* C17: add_light(reaction, coefficient, base) on a model appends the
   triple and sets light_flag exactly when reaction is one of the model's
   REACTION_NAMES; for any other argument the light list and the flag are
   left as they were. *)
C17_AddLightByName ==
  mpc = "build" =>
    \A reaction \in LightArgs :
      LET after == add_light(m, reaction, 5, 9) IN
      IF reaction.k = "w" /\ reaction.s \in ReactionNames(m)
      THEN /\ after.light = Append(m.light, <<reaction, N(5), N(9)>>)
           /\ after.light_flag
      ELSE /\ after.light = m.light
           /\ after.light_flag = m.light_flag


\* the optional sections of a layout file and the presence flag of each
OptionalSections == {"diffusion_constants", "barrier", "reactions", "periodic_media"}
SectionFlagOf(ly, h) ==
  IF h = "diffusion_constants" THEN ly.diffusion_flag
  ELSE IF h = "barrier" THEN ly.barrier_flag
  ELSE IF h = "reactions" THEN ly.ext_rxns_flag ELSE ly.periodic_media_flag

(* C18: when layout(path) returns for a file write_layout wrote, every
   diffusion_constants, barrier, reactions or periodic_media section of the
   file has its presence flag set in the Layout read, and a write_layout of
   that Layout emits the section again. *)
C18_ReadCoversOptionalSections ==
  (lpc = "read" /\ lres.status = "ok") =>
    \A h \in OptionalSections :
      BlockHeaders(lfile.lines, h) # {}
        => /\ SectionFlagOf(lres.self, h)
           /\ BlockHeaders(write_layout(lres.self).lines, h) # {}


\* the presence flags of the optional sections of a model file
ModelFlags(mm) ==
  <<mm.vmax_flag, mm.km_flag, mm.hill_flag, mm.convection_flag,
    mm.nonlinear_diffusion_flag, mm.noise_variance_flag, mm.neutral_drift_flag>>

(* C19: reading a file that write_comets_model wrote completes without
   error, and the Model read has the vmax, km, hill, convection, nonlinear
   diffusion, noise variance and neutral drift flags true exactly for the
   sections the file has, which are those whose flag the written model had. *)
C19_OptionalSectionFlags ==
  (mpc = "read" /\ mfile.status = "ok") =>
    /\ mres.status = "ok"
    /\ ModelFlags(mres.self) = ModelFlags(m)


\* every coordinate a layout stores: barriers and the keys of the local maps
StoredCoordinates(ly) ==
  ly.barriers \cup DictKeys(ly.local_media) \cup DictKeys(ly.local_refresh)
    \cup DictKeys(ly.local_static)

(* C20: after any sequence of add_barriers and set_specific_*_at_location
   calls on a layout with a fixed grid, every stored coordinate (x, y) has
   0 <= x < grid[0] and 0 <= y < grid[1]. *)
C20_GridCoordinateInvariant ==
  lpc = "build" =>
    \A c \in StoredCoordinates(lyt) :
      /\ 0 <= c[1] /\ c[1] < lyt.grid[1]
      /\ 0 <= c[2] /\ c[2] < lyt.grid[2]


\* the values a local map holds, over all its locations and metabolites
LocalValues(d) ==
  UNION {{d[i].vals[x] : x \in DOMAIN d[i].vals} : i \in 1..Len(d)}

(* C21: after any sequence of set_specific_metabolite_at_location,
   set_specific_refresh_at_location and set_specific_static_at_location
   calls, and after layout(path), no entry of local_media, local_refresh or
   local_static has the value 0. *)
C21_NoZeroLocalEntries ==
  /\ lpc = "build" =>
       \A h \in LocalBlocks : 0 \notin LocalValues(LocalMapOf(lyt, h))
  /\ (lpc = "read" /\ lres.status = "ok") =>
       \A h \in LocalBlocks : 0 \notin LocalValues(LocalMapOf(lres.self, h))


\* some reaction of the model has a value in that column
HasValue(mm, col) == \E i \in 1..Len(mm.reactions) : mm.reactions[i][col] # NaN

FlagsMatchValues(mm) ==
  /\ mm.vmax_flag <=> HasValue(mm, "V_MAX")
  /\ mm.km_flag <=> HasValue(mm, "KM")
  /\ mm.hill_flag <=> HasValue(mm, "HILL")

(* C22: in every Model, after construction, after any sequence of
   change_vmax, change_km and change_hill calls, and after a
   read_comets_model that returned, vmax_flag is true exactly when some
   reaction has a non-null V_MAX, and likewise km_flag for KM and hill_flag
   for HILL. *)
C22_PresenceFlags ==
  /\ mpc = "build" => FlagsMatchValues(m)
  /\ (mpc = "read" /\ mres.status = "ok") => FlagsMatchValues(mres.self)


\* the exchange index of every reaction, by ID
ExchIndById(mm) == {<<mm.reactions[i].ID, mm.reactions[i].EXCH_IND>> : i \in 1..Len(mm.reactions)}

(* C23: in every Model that read_comets_model returned, the exchange
   indices follow the IDs: for exchange reactions a and b, ID(a) < ID(b)
   gives EXCH_IND(a) < EXCH_IND(b); and writing that Model and reading the
   file again gives every reaction the same exchange index. *)
C23_ExchangeIndexOrder ==
  (mpc = "read" /\ mres.status = "ok") =>
    /\ \A a, b \in Range(mres.self.reactions) :
         (a.EXCH /\ b.EXCH /\ a.ID < b.ID) => a.EXCH_IND < b.EXCH_IND
    /\ LET again == write_comets_model(mres.self) IN
       again.status = "ok" =>
         LET back == read_comets_model(m.id, again.lines) IN
         back.status = "ok" => ExchIndById(back.self) = ExchIndById(mres.self)


\* every exchanged metabolite has a row in the media table
MediaCoversExchanged(ly) == Range(ly.all_exchanged_mets) \subseteq MediaNames(ly)

(* C24: in every Layout, built from models by add_model and
   set_specific_metabolite calls or returned by layout(path), every name in
   all_exchanged_mets is the metabolite of some row of the media table. *)
C24_MediaSuperset ==
  /\ lpc = "build" => MediaCoversExchanged(lyt)
  /\ (lpc = "read" /\ lres.status = "ok") => MediaCoversExchanged(lres.self)


\* the region values a region map holds
RegionValues(map) == UNION {Range(map[i]) : i \in 1..Len(map)}

\* the map holds the regions 1..R and every one of them has parameters
RegionsComplete(ly) ==
  /\ RegionValues(ly.region_map) = 1..Cardinality(RegionValues(ly.region_map))
  /\ RegionValues(ly.region_map) \subseteq DOMAIN ly.region_parameters

(* C25: in every Layout in which a region map is set, after any sequence
   of set_region_map and set_region_parameters calls or a layout(path) that
   returned, the values of region_map are the integers 1..R and
   region_parameters has an entry for every one of them. *)
C25_RegionInvariant ==
  /\ (lpc = "build" /\ lyt.region_flag) => RegionsComplete(lyt)
  /\ (lpc = "read" /\ lres.status = "ok" /\ lres.self.region_flag)
       => RegionsComplete(lres.self)


\* the Models handed to layout(models) and add_model, as the caller built them
SuppliedModels == {ModelA0, ModelA1, ModelB1, ModelB2}

(* C26: constructing a Layout from models, add_model, update_models and
   write_layout leave every Model the Layout refers to as the caller
   supplied it, its initial_pop value and shape included. *)
C26_ModelsUnchanged ==
  lpc \in {"build", "written"} =>
    \A i \in 1..Len(lyt.models) : lyt.models[i] \in SuppliedModels


\* lyt = open(outfile, 'a') ... lyt.close(): the close is the last statement
\* of write_layout and no try/finally or with block surrounds the chunks
write_layout_handle(ly) ==
  IF write_layout(ly).status = "ok" THEN "closed" ELSE "open"

\* with open(path_to_write, 'a') as f: the block closes f however it is left
write_comets_model_handle(mm) == "closed"

(* C27: when write_layout or write_comets_model has been left, by return
   or by an exception raised while a chunk was being written, the handle
   of the output file is closed. *)
C27_FileHandleRelease ==
  /\ lpc \in {"written", "read"} => write_layout_handle(lyt) = "closed"
  /\ mpc \in {"written", "read"} => write_comets_model_handle(m) = "closed"


\* the headers of the optional blocks of a layout file, as written and in
\* upper case, and the flag each block sets
HeaderSpellings ==
  [media |-> {"media", "MEDIA"},
   media_refresh |-> {"media_refresh", "MEDIA_REFRESH"},
   static_media |-> {"static_media", "STATIC_MEDIA"},
   substrate_layout |-> {"substrate_layout", "SUBSTRATE_LAYOUT"}]

\* the lines whose first token is the header h, in either case
HeaderLines(lines, h) ==
  {k \in 1..Len(lines) :
     lines[k] # <<>> /\ lines[k][1].k = "w" /\ lines[k][1].s \in HeaderSpellings[h]}

BlockFlagOf(ly, h) ==
  IF h = "substrate_layout" THEN ly.region_flag ELSE LocalFlagOf(ly, h)

(* C28: a section of a layout file is found by the first token of its
   header line: when layout(path) returns, the flag of an optional block is
   true only if some line of the file has the header of that block as its
   first token; a word that merely contains the keyword does not set it. *)
C28_HeaderByFirstToken ==
  (lpc = "read" /\ lres.status = "ok") =>
    \A h \in DOMAIN HeaderSpellings :
      BlockFlagOf(lres.self, h) => HeaderLines(lfile.lines, h) # {}


\* what an unknown-name call is to leave alone, in a Model and in a Layout
ModelFrame(mm) == <<mm.reactions, mm.vmax_flag, mm.km_flag, mm.hill_flag>>
LayoutFrame(ly) ==
  <<ly.media, ly.local_media, ly.local_refresh, ly.local_static,
    ly.local_media_flag, ly.refresh_flag, ly.static_flag>>

\* names no Model and no Layout of the model has
UnknownReaction == "nope"
UnknownMetabolite == "xyz_e"

(* C29: change_bounds, change_vmax, change_km and change_hill with a
   reaction name the Model does not have leave the reactions table and the
   vmax, km and hill flags as they were; set_specific_refresh and
   set_specific_static with a metabolite that is not in the media table,
   and the three set_specific_*_at_location calls with a metabolite that is
   not in all_exchanged_mets, leave the media table, the local maps and the
   local-media, refresh and static flags as they were. *)
C29_UnknownNameNoChange ==
  /\ mpc = "build" =>
       /\ ModelFrame(change_bounds(m, UnknownReaction, 0, 1)) = ModelFrame(m)
       /\ ModelFrame(change_vmax(m, UnknownReaction, 5)) = ModelFrame(m)
       /\ ModelFrame(change_km(m, UnknownReaction, 2)) = ModelFrame(m)
       /\ ModelFrame(change_hill(m, UnknownReaction, 3)) = ModelFrame(m)
  /\ lpc = "build" =>
       /\ LayoutFrame(set_specific_refresh(lyt, UnknownMetabolite, 3)) = LayoutFrame(lyt)
       /\ LayoutFrame(set_specific_static(lyt, UnknownMetabolite, 4)) = LayoutFrame(lyt)
       /\ \A loc \in Locs :
            /\ LayoutFrame(set_specific_metabolite_at_location(lyt, UnknownMetabolite, loc, 5))
                 = LayoutFrame(lyt)
            /\ LayoutFrame(set_specific_refresh_at_location(lyt, UnknownMetabolite, loc, 3))
                 = LayoutFrame(lyt)
            /\ LayoutFrame(set_specific_static_at_location(lyt, UnknownMetabolite, loc, 4))
                 = LayoutFrame(lyt)


(* C30: after any sequence of add_model and set_specific_metabolite calls,
   for metabolites the media table has and for new ones, every row of the
   media table has its 0-based position as its label and every metabolite
   name is in one row only. *)
C30_MediaIndexUnique ==
  lpc = "build" =>
    /\ \A i \in 1..Len(lyt.media) : lyt.media[i].label = i - 1
    /\ \A i, j \in 1..Len(lyt.media) :
         lyt.media[i].metabolite = lyt.media[j].metabolite => i = j

====
